---- MODULE Spec2Model ----
(***************************************************************************)
(* Verification model of serde_arrow: the event sink machinery             *)
(* (src/serde_arrow/src/internal/sink.rs, internal/mod.rs), the            *)
(* Utf8Builder (internal/serialization_ng/utf8_builder.rs) and the         *)
(* integer, time, date and dictionary deserializers                        *)
(* (internal/deserialization, arrow2_impl/deserialization.rs).  Each       *)
(* component has its own specification; the variables of the others rest.  *)
(*                                                                         *)
(* An Event is a record [tag, str, num]: `tag` is the variant name, `str`  *)
(* the string payload (Str, Variant name) and `num` the numeric payload    *)
(* (integers, Bool as 0/1, Variant index).  Variants without a payload     *)
(* carry str = "" and num = 0.                                             *)
(***************************************************************************)
EXTENDS Integers, Sequences, FiniteSets, TLC

VARIABLES
    sink,       \* the StripOuterSequenceSink: [wrapped, state]
    last,       \* the latest call on the sink and its result
    rejects,    \* the event variants the wrapped sink does not support
    items,      \* the rows of the value being serialized, each as its events
    stream,     \* the events the value serializes to
    pos,        \* how many events of the stream have been delivered
    entry,      \* the entry point that is running
    outcome,    \* where the entry point is, and how it returned
    builder,    \* the builder: a Utf8Builder or a generic array builder
    written,    \* the rows the builder has accepted, in order; for
                \* serialize_into_sink the calls it made on the sink
    call,       \* the latest call on the builder and its result
    view,       \* the array a deserializer is built over
    read        \* the latest construction or read of the deserializer

sinkVars == <<sink, last, rejects, items, stream, pos, entry, outcome>>

builderVars == <<builder, written, call>>

deserVars == <<view, read>>

vars == <<sink, last, rejects, items, stream, pos, entry, outcome,
          builder, written, call, view, read>>

----------------------------------------------------------------------------
(* Bounds of the model *)

\* most events the wrapped Vec<Event> holds before the model stops feeding
MaxForward == 3

\* most rows of a serialized value
MaxRows == 2

\* deepest nesting of containers within one row
MaxDepth == 2

\* most rows written to a Utf8Builder
MaxWritten == 3

\* most rows of an array a deserializer reads
MaxArrayLen == 1

\* most children of a Dictionary field
MaxChildren == 2

\* most fields of a struct
MaxFields == 2

\* most builds of a generic builder
MaxBuilds == 2

----------------------------------------------------------------------------
(* Events *)

Ev(tag, str, num) == [tag |-> tag, str |-> str, num |-> num]

StartTags == {"StartSequence", "StartTuple", "StartStruct", "StartMap"}

EndTags == {"EndSequence", "EndTuple", "EndStruct", "EndMap"}

MarkerTags == {"Item", "Some", "Variant"}

ValueTags ==
    {"Null", "Default", "Str", "Bool", "I8", "I16", "I32", "I64",
     "U8", "U16", "U32", "U64", "F32", "F64"}

Tags == StartTags \cup EndTags \cup MarkerTags \cup ValueTags

\* the specific methods of the EventSink trait
Methods ==
    {"accept_start_sequence", "accept_end_sequence", "accept_start_tuple",
     "accept_end_tuple", "accept_start_struct", "accept_end_struct",
     "accept_start_map", "accept_end_map", "accept_item", "accept_some",
     "accept_null", "accept_default", "accept_str", "accept_variant",
     "accept_bool", "accept_i8", "accept_i16", "accept_i32", "accept_i64",
     "accept_u8", "accept_u16", "accept_u32", "accept_u64", "accept_f32",
     "accept_f64"}

\* the event each specific method stands for: the `ev` the accept_* macros
\* bind and the Event forward_specialized_to_generic! builds
TagOfMethod ==
    [accept_start_sequence |-> "StartSequence", accept_end_sequence |-> "EndSequence",
     accept_start_tuple |-> "StartTuple", accept_end_tuple |-> "EndTuple",
     accept_start_struct |-> "StartStruct", accept_end_struct |-> "EndStruct",
     accept_start_map |-> "StartMap", accept_end_map |-> "EndMap",
     accept_item |-> "Item", accept_some |-> "Some", accept_null |-> "Null",
     accept_default |-> "Default", accept_str |-> "Str", accept_variant |-> "Variant",
     accept_bool |-> "Bool", accept_i8 |-> "I8", accept_i16 |-> "I16",
     accept_i32 |-> "I32", accept_i64 |-> "I64", accept_u8 |-> "U8",
     accept_u16 |-> "U16", accept_u32 |-> "U32", accept_u64 |-> "U64",
     accept_f32 |-> "F32", accept_f64 |-> "F64"]

\* a dispatch that sends EndTuple to accept_end_sequence and back
MethodOfTag_ends_swapped ==
    [StartSequence |-> "accept_start_sequence", EndSequence |-> "accept_end_tuple",
     StartTuple |-> "accept_start_tuple", EndTuple |-> "accept_end_sequence",
     StartStruct |-> "accept_start_struct", EndStruct |-> "accept_end_struct",
     StartMap |-> "accept_start_map", EndMap |-> "accept_end_map",
     Item |-> "accept_item", Some |-> "accept_some", Null |-> "accept_null",
     Default |-> "accept_default", Str |-> "accept_str", Variant |-> "accept_variant",
     Bool |-> "accept_bool", I8 |-> "accept_i8", I16 |-> "accept_i16",
     I32 |-> "accept_i32", I64 |-> "accept_i64", U8 |-> "accept_u8",
     U16 |-> "accept_u16", U32 |-> "accept_u32", U64 |-> "accept_u64",
     F32 |-> "accept_f32", F64 |-> "accept_f64"]

\* the method the generic accept(event) calls for each event variant
\* (forward_generic_to_specialized!)
MethodOfTag ==
    [StartSequence |-> "accept_start_sequence", EndSequence |-> "accept_end_sequence",
     StartTuple |-> "accept_start_tuple", EndTuple |-> "accept_end_tuple",
     StartStruct |-> "accept_start_struct", EndStruct |-> "accept_end_struct",
     StartMap |-> "accept_start_map", EndMap |-> "accept_end_map",
     Item |-> "accept_item", Some |-> "accept_some", Null |-> "accept_null",
     Default |-> "accept_default", Str |-> "accept_str", Variant |-> "accept_variant",
     Bool |-> "accept_bool", I8 |-> "accept_i8", I16 |-> "accept_i16",
     I32 |-> "accept_i32", I64 |-> "accept_i64", U8 |-> "accept_u8",
     U16 |-> "accept_u16", U32 |-> "accept_u32", U64 |-> "accept_u64",
     F32 |-> "accept_f32", F64 |-> "accept_f64"]

\* payload a method takes: accept_str(val), accept_variant(name, idx),
\* accept_<scalar>(val); the structural methods take none
EventOfMethod(m, str, num) ==
    LET t == TagOfMethod[m]
    IN  CASE t = "Variant" -> Ev(t, str, num)
          [] t = "Str" -> Ev(t, str, 0)
          [] t \in ValueTags \ {"Null", "Default", "Str"} -> Ev(t, "", num)
          [] OTHER -> Ev(t, "", 0)

\* calls of the specific methods: every method, with two payloads where the
\* method takes one
MethodCalls ==
    {[m |-> m, str |-> "", num |-> 0] : m \in Methods}
        \cup {[m |-> "accept_str", str |-> "x", num |-> 0],
              [m |-> "accept_variant", str |-> "a", num |-> 1],
              [m |-> "accept_bool", str |-> "", num |-> 1],
              [m |-> "accept_i8", str |-> "", num |-> 1],
              [m |-> "accept_u64", str |-> "", num |-> 1]}

\* every event variant, with two payloads where the variant carries one
AllEvents == {EventOfMethod(c.m, c.str, c.num) : c \in MethodCalls}

\* the events the model feeds: every start, end and marker, and a
\* representative of the value events (unit, string and numeric payload)
Events ==
    {Ev(t, "", 0) : t \in StartTags \cup EndTags \cup {"Item", "Some", "Null", "Default"}}
        \cup {Ev("Variant", "a", 1), Ev("Str", "x", 0), Ev("I8", "", 1)}

----------------------------------------------------------------------------
(* Results: Result<()> together with the sink as the call left it *)

NoError == [msg |-> "", ev |-> Ev("Null", "", 0), state |-> "", depth |-> 0]

Ok(s) == [ok |-> TRUE, err |-> NoError, sink |-> s]

\* fail!("Invalid event {ev} in state {state:?} for StripOuterSequence")
InvalidEvent(ev, state) ==
    [msg |-> "Invalid event in state for StripOuterSequence",
     ev |-> ev, state |-> state.kind, depth |-> state.depth]

Err(e, s) == [ok |-> FALSE, err |-> e, sink |-> s]

----------------------------------------------------------------------------
(* impl EventSink for Vec<Event<'static>> *)

\* accept: self.push(event.to_static()); Ok(())  (to_static copies the
\* borrowed payload into an owned one, the content is the same)
VecAccept(v, event) == Ok(Append(v, Ev(event.tag, event.str, event.num)))

\* forward_specialized_to_generic!: accept_x(val) = self.accept(Event::X(val))
VecAcceptSpecific(v, m, str, num) == VecAccept(v, EventOfMethod(m, str, num))

\* finish: Ok(())
VecFinish(v) == Ok(v)

----------------------------------------------------------------------------
(* The sink a stripper wraps: a Vec<Event> recording what it is given.  An *)
(* array builder or tracer in that place fails on the events its field     *)
(* does not support; `rejects` holds those variants (none for a Vec).      *)

WrongEvent(ev) ==
    [msg |-> "wrong event for state", ev |-> ev, state |-> "", depth |-> 0]

WrappedAccept(w, event) ==
    IF event.tag \in rejects THEN Err(WrongEvent(event), w) ELSE VecAccept(w, event)

WrappedAcceptSpecific(w, m, str, num) == WrappedAccept(w, EventOfMethod(m, str, num))

WrappedFinish(w) == VecFinish(w)

----------------------------------------------------------------------------
(* StripOuterSequenceSink<E> *)

WaitForStart == [kind |-> "WaitForStart", depth |-> 0]

WaitForItem == [kind |-> "WaitForItem", depth |-> 0]

Item(depth) == [kind |-> "Item", depth |-> depth]

\* StripOuterSequenceSink::new(wrapped)
StripOuterSequenceSink_new(wrapped) == [wrapped |-> wrapped, state |-> WaitForStart]

\* an arm that assigns the state whatever the wrapped sink returned
Forward_state_assigned(this, nxt, state) ==
    IF nxt.ok
    THEN Ok([wrapped |-> nxt.sink, state |-> state])
    ELSE Err(nxt.err, [wrapped |-> nxt.sink, state |-> state])

\* the arm `next(&mut this.wrapped, val)?; <state>`: the state is assigned
\* only when the wrapped sink accepted, an error returns before the assignment
Forward(this, nxt, state) ==
    IF nxt.ok
    THEN Ok([wrapped |-> nxt.sink, state |-> state])
    ELSE Err(nxt.err, [this EXCEPT !.wrapped = nxt.sink])

\* accept_start that forwards a nested start without counting it
accept_start_uncounted(this, ev, nxt) ==
    CASE this.state.kind = "WaitForStart" -> Ok([this EXCEPT !.state = WaitForItem])
      [] this.state.kind = "Item" -> Forward(this, nxt, Item(this.state.depth))
      [] OTHER -> Err(InvalidEvent(ev, this.state), this)

\* macros::accept_start!((this, ev, val, next) {...}); nxt is the result of
\* next(&mut this.wrapped, val)
accept_start(this, ev, nxt) ==
    CASE this.state.kind = "WaitForStart" -> Ok([this EXCEPT !.state = WaitForItem])
      [] this.state.kind = "Item" -> Forward(this, nxt, Item(this.state.depth + 1))
      [] OTHER -> Err(InvalidEvent(ev, this.state), this)

\* accept_end that completes the row at depth 0 and decrements above it
accept_end_from_zero(this, ev, nxt) ==
    CASE this.state = Item(0) -> Forward(this, nxt, WaitForItem)
      [] this.state.kind = "Item" /\ this.state.depth > 0 ->
            Forward(this, nxt, Item(this.state.depth - 1))
      [] this.state.kind = "WaitForItem" -> Ok([this EXCEPT !.state = WaitForStart])
      [] OTHER -> Err(InvalidEvent(ev, this.state), this)

\* accept_end that forwards a nested end without counting it
accept_end_uncounted(this, ev, nxt) ==
    CASE this.state = Item(1) -> Forward(this, nxt, WaitForItem)
      [] this.state.kind = "Item" /\ this.state.depth > 1 ->
            Forward(this, nxt, Item(this.state.depth))
      [] this.state.kind = "WaitForItem" -> Ok([this EXCEPT !.state = WaitForStart])
      [] OTHER -> Err(InvalidEvent(ev, this.state), this)

\* accept_end that hands the outer end to the wrapped sink
accept_end_outer_forwarded(this, ev, nxt) ==
    CASE this.state = Item(1) -> Forward(this, nxt, WaitForItem)
      [] this.state.kind = "Item" /\ this.state.depth > 1 ->
            Forward(this, nxt, Item(this.state.depth - 1))
      [] this.state.kind = "WaitForItem" -> Forward(this, nxt, WaitForStart)
      [] OTHER -> Err(InvalidEvent(ev, this.state), this)

\* macros::accept_end!((this, ev, val, next) {...})
accept_end(this, ev, nxt) ==
    CASE this.state = Item(1) -> Forward(this, nxt, WaitForItem)
      [] this.state.kind = "Item" /\ this.state.depth > 1 ->
            Forward(this, nxt, Item(this.state.depth - 1))
      [] this.state.kind = "WaitForItem" -> Ok([this EXCEPT !.state = WaitForStart])
      [] OTHER -> Err(InvalidEvent(ev, this.state), this)

\* accept_value without the arm that completes a scalar row
accept_value_no_row_end(this, ev, nxt) ==
    CASE this.state.kind = "Item" -> Forward(this, nxt, Item(this.state.depth))
      [] OTHER -> Err(InvalidEvent(ev, this.state), this)

\* macros::accept_value!((this, ev, val, next) {...})
accept_value(this, ev, nxt) ==
    CASE this.state = Item(0) -> Forward(this, nxt, WaitForItem)
      [] this.state.kind = "Item" -> Forward(this, nxt, Item(this.state.depth))
      [] OTHER -> Err(InvalidEvent(ev, this.state), this)

\* accept_marker without the `matches!(ev, Event::Item)` guard
accept_marker_unguarded(this, ev, nxt) ==
    CASE this.state.kind = "WaitForItem" -> Ok([this EXCEPT !.state = Item(0)])
      [] this.state.kind = "Item" -> Forward(this, nxt, Item(this.state.depth))
      [] OTHER -> Err(InvalidEvent(ev, this.state), this)

\* accept_marker that hands the outer Item marker to the wrapped sink
accept_marker_item_forwarded(this, ev, nxt) ==
    CASE this.state.kind = "WaitForItem" /\ ev.tag = "Item" ->
            Forward(this, nxt, Item(0))
      [] this.state.kind = "Item" -> Forward(this, nxt, Item(this.state.depth))
      [] OTHER -> Err(InvalidEvent(ev, this.state), this)

\* macros::accept_marker!((this, ev, val, next) {...})
accept_marker(this, ev, nxt) ==
    CASE this.state.kind = "WaitForItem" /\ ev.tag = "Item" ->
            Ok([this EXCEPT !.state = Item(0)])
      [] this.state.kind = "Item" -> Forward(this, nxt, Item(this.state.depth))
      [] OTHER -> Err(InvalidEvent(ev, this.state), this)

\* the specific accept_* methods the four macros define: each binds ev to its
\* own event and next to the same method of the wrapped sink
StripAcceptSpecific(this, m, str, num) ==
    LET ev == EventOfMethod(m, str, num)
        nxt == WrappedAcceptSpecific(this.wrapped, m, str, num)
    IN  CASE ev.tag \in StartTags -> accept_start(this, ev, nxt)
          [] ev.tag \in EndTags -> accept_end(this, ev, nxt)
          [] ev.tag \in MarkerTags -> accept_marker(this, ev, nxt)
          [] OTHER -> accept_value(this, ev, nxt)

\* forward_generic_to_specialized!: accept(event) matches on the event and
\* calls the specific method with its payload
StripAccept(this, event) ==
    StripAcceptSpecific(this, MethodOfTag[event.tag], event.str, event.num)

\* finish: self.wrapped.finish()
StripFinish(this) ==
    LET r == WrappedFinish(this.wrapped)
    IN  [r EXCEPT !.sink = [this EXCEPT !.wrapped = r.sink]]

----------------------------------------------------------------------------
(* The forwarding sinks: Box<T>, &mut E, DebugSink<E>, DynamicArrayBuilder *)

\* a Box<T>::accept that hands the event to what T wraps, past T itself
BoxAccept_past_inner(b, event) ==
    LET r == WrappedAccept(b.wrapped, event)
    IN  [r EXCEPT !.sink = [b EXCEPT !.wrapped = r.sink]]

\* Box<T>::accept: self.as_mut().accept(event), here T a stripper
BoxAccept(b, event) == StripAccept(b, event)

\* Box<T>::accept_*: next(this.as_mut(), val), the same method of T
BoxAcceptSpecific(b, m, str, num) == StripAcceptSpecific(b, m, str, num)

\* <&mut E>::accept: (*self).accept(event), here E a stripper
RefMutAccept(r, event) == StripAccept(r, event)

\* <&mut E>::accept_*: next(*this, val)
RefMutAcceptSpecific(r, m, str, num) == StripAcceptSpecific(r, m, str, num)

\* DebugSink<E>::accept: println!("{event}"); self.wrapped.accept(event);
\* a DebugSink is [wrapped, printed], printed being what it wrote so far
DebugAccept(d, event) ==
    LET r == VecAccept(d.wrapped, event)
    IN  [r EXCEPT !.sink = [wrapped |-> r.sink, printed |-> Append(d.printed, event)]]

\* DebugSink<E>::accept_* (forward_specialized_to_generic!)
DebugAcceptSpecific(d, m, str, num) == DebugAccept(d, EventOfMethod(m, str, num))

\* DynamicArrayBuilder::accept: self.builder.accept(event)
DynamicAccept(b, event) == WrappedAccept(b, event)

\* DynamicArrayBuilder::accept_*: next(this.builder.as_mut(), val)
DynamicAcceptSpecific(b, m, str, num) == WrappedAcceptSpecific(b, m, str, num)

----------------------------------------------------------------------------
(* Utf8Builder<O> (internal/serialization_ng/utf8_builder.rs), with O = i32 *)
(* A string is its UTF-8 bytes, written as runs: [byte, n] stands for n    *)
(* copies of `byte`.  The Vec<u8> of the builder holds the runs appended   *)
(* to it, a bit buffer is the sequence of its bits.                        *)

Run(byte, n) == [byte |-> byte, n |-> n]

RECURSIVE ByteLen(_)
\* str::len, Vec<u8>::len: the number of bytes
ByteLen(bytes) ==
    IF bytes = <<>> THEN 0 ELSE Head(bytes).n + ByteLen(Tail(bytes))

\* the values handed to the builder: None, or a string
NoneVal == [kind |-> "none", str |-> <<>>]

StrVal(s) == [kind |-> "str", str |-> s]

\* Option<MutableBitBuffer>
NoneBits == [some |-> FALSE, bits |-> <<>>]

SomeBits(bits) == [some |-> TRUE, bits |-> bits]

\* push_validity(buffer, value): a null has no place without a bitmap
push_validity(buffer, value) ==
    IF buffer.some
    THEN [ok |-> TRUE, err |-> "", buffer |-> SomeBits(Append(buffer.bits, value))]
    ELSE IF value
    THEN [ok |-> TRUE, err |-> "", buffer |-> buffer]
    ELSE [ok |-> FALSE, err |-> "null in non-nullable", buffer |-> buffer]

\* push_validity_default(buffer)
push_validity_default(buffer) ==
    IF buffer.some THEN SomeBits(Append(buffer.bits, FALSE)) ELSE buffer

\* the largest value of the offset type, i32::MAX
I32Max == 2147483647

\* MutableOffsetBuffer<O>: the offsets written and the running total
MutableOffsetBuffer_default == [offsets |-> <<0>>, current_items |-> 0]

\* MutableOffsetBuffer::push_current_items
MutableOffsetBuffer_push_current_items(ob) ==
    [ob EXCEPT !.offsets = Append(@, ob.current_items)]

\* MutableOffsetBuffer::push(num_items): the new total has to fit O
MutableOffsetBuffer_push(ob, num_items) ==
    IF num_items > I32Max - ob.current_items
    THEN [ok |-> FALSE, err |-> "overflow", offsets |-> ob]
    ELSE LET total == ob.current_items + num_items
         IN  [ok |-> TRUE, err |-> "",
              offsets |-> [offsets |-> Append(ob.offsets, total),
                           current_items |-> total]]

Utf8Builder_new(is_nullable) ==
    [validity |-> IF is_nullable THEN SomeBits(<<>>) ELSE NoneBits,
     offsets |-> MutableOffsetBuffer_default,
     buffer |-> <<>>]

\* Result<()> together with the builder as the call left it
BuilderOk(b) == [ok |-> TRUE, err |-> "", builder |-> b]

BuilderErr(e, b) == [ok |-> FALSE, err |-> e, builder |-> b]

serialize_default_no_validity(self) ==
    BuilderOk([self EXCEPT
        !.offsets = MutableOffsetBuffer_push_current_items(@)])

serialize_default_zero_offset(self) ==
    BuilderOk([self EXCEPT
        !.validity = push_validity_default(@),
        !.offsets = [@ EXCEPT !.offsets = Append(@, 0)]])

serialize_default(self) ==
    BuilderOk([self EXCEPT
        !.validity = push_validity_default(@),
        !.offsets = MutableOffsetBuffer_push_current_items(@)])

serialize_none_no_offset(self) ==
    LET v == push_validity(self.validity, FALSE)
    IN  IF ~v.ok THEN BuilderErr(v.err, self)
        ELSE BuilderOk([self EXCEPT !.validity = v.buffer])

serialize_none(self) ==
    LET v == push_validity(self.validity, FALSE)
    IN  IF ~v.ok THEN BuilderErr(v.err, self)
        ELSE BuilderOk([self EXCEPT
                !.validity = v.buffer,
                !.offsets = MutableOffsetBuffer_push_current_items(@)])

serialize_str_no_extend(self, v) ==
    LET a == push_validity(self.validity, TRUE)
        b == [self EXCEPT !.validity = a.buffer]
        o == MutableOffsetBuffer_push(b.offsets, ByteLen(v))
    IN  IF ~a.ok THEN BuilderErr(a.err, b)
        ELSE IF ~o.ok THEN BuilderErr(o.err, b)
        ELSE BuilderOk([b EXCEPT !.offsets = o.offsets])

serialize_str_unchecked(self, v) ==
    LET a == push_validity(self.validity, TRUE)
        b == [self EXCEPT !.validity = a.buffer]
        o == MutableOffsetBuffer_push(b.offsets, ByteLen(v))
    IN  IF ~a.ok THEN BuilderErr(a.err, b)
        ELSE BuilderOk([b EXCEPT !.offsets = o.offsets, !.buffer = @ \o v])

serialize_str_offset_first(self, v) ==
    LET o == MutableOffsetBuffer_push(self.offsets, ByteLen(v))
        a == push_validity(self.validity, TRUE)
    IN  IF ~o.ok THEN BuilderErr(o.err, self)
        ELSE IF ~a.ok THEN BuilderErr(a.err, [self EXCEPT !.offsets = o.offsets])
        ELSE BuilderOk([self EXCEPT !.validity = a.buffer, !.offsets = o.offsets,
                                    !.buffer = @ \o v])

\* the validity bit is pushed first; `?` on offsets.push returns before the
\* bytes are appended
serialize_str(self, v) ==
    LET a == push_validity(self.validity, TRUE)
        b == [self EXCEPT !.validity = a.buffer]
        o == MutableOffsetBuffer_push(b.offsets, ByteLen(v))
    IN  IF ~a.ok THEN BuilderErr(a.err, b)
        ELSE IF ~o.ok THEN BuilderErr(o.err, b)
        ELSE BuilderOk([b EXCEPT !.offsets = o.offsets, !.buffer = @ \o v])

\* value.serialize(Mut(self)): None comes back as serialize_none, a string
\* as serialize_str
serialize_some(self, value) ==
    IF value.kind = "none" THEN serialize_none(self)
    ELSE serialize_str(self, value.str)

\* no call has been made on the builder
NoBuilderCall ==
    [op |-> "none", arg |-> NoneVal, ok |-> TRUE, err |-> "",
     pre |-> Utf8Builder_new(FALSE), nullable |-> FALSE]

BuilderAtRest ==
    /\ builder = Utf8Builder_new(FALSE)
    /\ written = <<>>
    /\ call = NoBuilderCall

----------------------------------------------------------------------------
(* The deserializers at rest *)

NoView == [kind |-> "none"]

NoRead == [op |-> "none"]

DeserAtRest == view = NoView /\ read = NoRead

----------------------------------------------------------------------------
(* The stripper driven by arbitrary events                                 *)
(* `last` records the latest call: its event, the path taken, the result   *)
(* and the sink before the call.                                           *)

NoCall ==
    [ev |-> Ev("Null", "", 0), via |-> "none", ok |-> TRUE, err |-> NoError,
     pre |-> StripOuterSequenceSink_new(<<>>)]

\* no value is being serialized
Idle == items = <<>> /\ stream = <<>> /\ pos = 0 /\ entry = "none" /\ outcome = "none"

Init ==
    /\ sink = StripOuterSequenceSink_new(<<>>)
    /\ last = NoCall
    /\ rejects = {}
    /\ Idle
    /\ BuilderAtRest
    /\ DeserAtRest

Called(e, via, r) ==
    /\ sink' = r.sink
    /\ last' = [ev |-> e, via |-> via, ok |-> r.ok, err |-> r.err, pre |-> sink]

\* sink.accept(e)
Accept(e) ==
    /\ Len(sink.wrapped) < MaxForward
    /\ Called(e, "accept", StripAccept(sink, e))
    /\ UNCHANGED <<rejects, items, stream, pos, entry, outcome, builderVars, deserVars>>

\* sink.accept_<x>(val), e.g. accept_i8(1)
AcceptSpecific(e) ==
    /\ Len(sink.wrapped) < MaxForward
    /\ Called(e, "accept_x", StripAcceptSpecific(sink, MethodOfTag[e.tag], e.str, e.num))
    /\ UNCHANGED <<rejects, items, stream, pos, entry, outcome, builderVars, deserVars>>

Next ==
    \/ \E e \in Events : Accept(e)
    \/ \E e \in Events : AcceptSpecific(e)

Spec == Init /\ [][Next]_vars

\* a wrapped sink that rejects strings, Some markers and the markers of a
\* struct
Rejected == {"Str", "Some", "StartStruct", "EndStruct"}

InitReject ==
    /\ sink = StripOuterSequenceSink_new(<<>>)
    /\ last = NoCall
    /\ rejects = Rejected
    /\ Idle
    /\ BuilderAtRest
    /\ DeserAtRest

SpecReject == InitReject /\ [][Next]_vars

----------------------------------------------------------------------------
(* The events EventSerializer produces for a sequence of rows              *)

Unit(tag) == Ev(tag, "", 0)

Kinds ==
    {[start |-> "StartSequence", end |-> "EndSequence"],
     [start |-> "StartTuple", end |-> "EndTuple"],
     [start |-> "StartStruct", end |-> "EndStruct"],
     [start |-> "StartMap", end |-> "EndMap"]}

\* the kind used for the containers nested in a row: a sequence, whose
\* start and end are the events the outer sequence has too
InnerKinds == {k \in Kinds : k.start = "StartSequence"}

\* a container: its start, the events of its content, its matching end
Wrap(k, body) == <<Unit(k.start)>> \o body \o <<Unit(k.end)>>

FlatBodies == {<<>>, <<Unit("Item"), Ev("I8", "", 1)>>}

\* the balanced containers of nesting depth at most d
RECURSIVE Containers(_, _)
Containers(kinds, d) ==
    IF d = 0
    THEN {}
    ELSE {Wrap(k, b) :
            k \in kinds,
            b \in FlatBodies \cup
                    {<<Unit("Item")>> \o c : c \in Containers(InnerKinds, d - 1)}}

\* a single value event, optionally preceded by a Some or Variant marker
ScalarRows ==
    {<<Ev("I8", "", 1)>>,
     <<Unit("Some"), Ev("Str", "x", 0)>>,
     <<Ev("Variant", "a", 1), Unit("Null")>>}

Rows == ScalarRows \cup Containers(Kinds, MaxDepth)

RowSeqs == UNION {[1..n -> Rows] : n \in 0..MaxRows}

RECURSIVE Concat(_)
Concat(seqs) == IF seqs = <<>> THEN <<>> ELSE Head(seqs) \o Concat(Tail(seqs))

\* serialize_seq, then per row serialize_element (accept_item and the row's
\* own events), then end
StreamOf(rows) ==
    <<Unit("StartSequence")>>
        \o Concat([i \in 1..Len(rows) |-> <<Unit("Item")>> \o rows[i]])
        \o <<Unit("EndSequence")>>

----------------------------------------------------------------------------
(* A well-formed stream delivered to a stripper over a Vec<Event>          *)

InitStream ==
    /\ sink = StripOuterSequenceSink_new(<<>>)
    /\ last = NoCall
    /\ rejects = {}
    /\ items \in RowSeqs
    /\ stream = StreamOf(items)
    /\ pos = 0
    /\ entry = "none"
    /\ outcome = "none"
    /\ BuilderAtRest
    /\ DeserAtRest

\* the serializer hands the next event to the sink; an error ends the pass
Feed ==
    /\ pos < Len(stream)
    /\ last.ok
    /\ LET e == stream[pos + 1]
       IN  Called(e, "accept_x", StripAcceptSpecific(sink, MethodOfTag[e.tag], e.str, e.num))
    /\ pos' = pos + 1
    /\ UNCHANGED <<rejects, items, stream, entry, outcome, builderVars, deserVars>>

NextStream == Feed

SpecStream == InitStream /\ [][NextStream]_vars

----------------------------------------------------------------------------
(* The serialization entry points of internal/mod.rs                       *)
(* Each builds its sink (an array builder or a tracer), wraps it in a      *)
(* stripper, runs serialize_into_sink and then builds its result.          *)
(* `outcome` is "start", "serializing", and finally how the call ended:    *)
(* "ok" (Ok returned), "err" (Err returned) or "panic".                    *)

ArrayEntries == {"serialize_into_array", "serialize_into_arrays"}

FieldEntries == {"serialize_into_field", "serialize_into_fields"}

EntryPoints == ArrayEntries \cup FieldEntries

\* what the entry point does with an Err of serialize_into_sink:
\* serialize_into_array unwraps it, the other three propagate it with `?`
OnSinkError(e) == IF e = "serialize_into_array" THEN "panic" ELSE "err"

\* values that do not serialize to a sequence: a number, a unit, one struct,
\* an optional sequence
NotSequences ==
    {<<Ev("I8", "", 1)>>,
     <<Unit("Null")>>,
     <<Unit("StartStruct"), Ev("Str", "x", 0), Ev("I8", "", 1), Unit("EndStruct")>>,
     <<Unit("Some"), Unit("StartSequence"), Unit("EndSequence")>>}

\* rows of the sequences given to the entry points: a number, a record
EntryRows ==
    {<<Ev("I8", "", 1)>>,
     <<Unit("StartStruct"), Ev("Str", "x", 0), Ev("I8", "", 1), Unit("EndStruct")>>}

EntryValues ==
    {[rows |-> rs, stream |-> StreamOf(rs)] :
        rs \in UNION {[1..n -> EntryRows] : n \in 0..MaxRows}}
      \cup {[rows |-> <<>>, stream |-> st] : st \in NotSequences}

\* the variants the sink built for the field does not support
RejectSets == {{}, {"Str"}, {"I8"}}

InitEntry ==
    /\ sink = StripOuterSequenceSink_new(<<>>)
    /\ last = NoCall
    /\ rejects \in RejectSets
    /\ \E v \in EntryValues : items = v.rows /\ stream = v.stream
    /\ pos = 0
    /\ entry \in EntryPoints
    /\ outcome = "start"
    /\ BuilderAtRest
    /\ DeserAtRest

\* a call serialize_into_sink made on its sink, kept in `written`
SinkCall(op, ev, ok) == [op |-> op, ev |-> ev, ok |-> ok]

\* build_array_builder / build_struct_array_builder may fail (`?`);
\* Tracer::new does not
EntryConstruct ==
    /\ outcome = "start"
    /\ \/ outcome' = "serializing"
       \/ entry \in ArrayEntries /\ outcome' = "err"
    /\ UNCHANGED <<sink, last, rejects, items, stream, pos, entry, builderVars, deserVars>>

\* serialize_into_sink, value.serialize(EventSerializer(sink))?: the next
\* event of the value; an Err ends serialize_into_sink with that Err
EntryServe ==
    /\ outcome = "serializing"
    /\ pos < Len(stream)
    /\ LET e == stream[pos + 1]
           r == StripAcceptSpecific(sink, MethodOfTag[e.tag], e.str, e.num)
       IN  /\ Called(e, "accept_x", r)
           /\ outcome' = IF r.ok THEN "serializing" ELSE OnSinkError(entry)
           /\ written' = Append(written, SinkCall("accept", e, r.ok))
    /\ pos' = pos + 1
    /\ UNCHANGED <<rejects, items, stream, entry, builder, call, deserVars>>

EntryFinish_after_failure ==
    /\ outcome \in {"serializing", "err", "panic"}
    /\ written = <<>> \/ written[Len(written)].op # "finish"
    /\ LET r == StripFinish(sink)
       IN  /\ sink' = r.sink
           /\ IF r.ok THEN outcome' \in {"ok", "err"} ELSE outcome' = OnSinkError(entry)
           /\ written' = Append(written, SinkCall("finish", NoCall.ev, r.ok))
    /\ UNCHANGED <<last, rejects, items, stream, pos, entry, builder, call, deserVars>>

\* serialize_into_sink, sink.finish()?, and then the result is built from
\* the inner sink (build_array, build_arrays, to_field), which returns Ok
\* or Err
EntryFinish ==
    /\ outcome = "serializing"
    /\ pos = Len(stream)
    /\ LET r == StripFinish(sink)
       IN  /\ sink' = r.sink
           /\ IF r.ok THEN outcome' \in {"ok", "err"} ELSE outcome' = OnSinkError(entry)
           /\ written' = Append(written, SinkCall("finish", NoCall.ev, r.ok))
    /\ UNCHANGED <<last, rejects, items, stream, pos, entry, builder, call, deserVars>>

NextEntry == EntryConstruct \/ EntryServe \/ EntryFinish

SpecEntry == InitEntry /\ [][NextEntry]_vars

----------------------------------------------------------------------------
(* A Utf8Builder driven by arbitrary calls                                 *)
(* `written` records the rows of the calls that returned Ok, `call` the    *)
(* latest call, the builder before it and whether the builder was made     *)
(* nullable.  A caller stops at the first Err.                             *)

\* "", "x", "ab" and a string of 2^30 bytes
StrValues ==
    {<<>>, <<Run(120, 1)>>, <<Run(97, 1), Run(98, 1)>>, <<Run(97, 1073741824)>>}

OptValues == {NoneVal} \cup {StrVal(s) : s \in StrValues}

NullRow == [null |-> TRUE, str |-> <<>>]

StrRow(s) == [null |-> FALSE, str |-> s]

RowOf(value) == IF value.kind = "none" THEN NullRow ELSE StrRow(value.str)

SinkAtRest ==
    /\ sink = StripOuterSequenceSink_new(<<>>)
    /\ last = NoCall
    /\ rejects = {}
    /\ Idle

InitUtf8 ==
    /\ SinkAtRest
    /\ \E is_nullable \in BOOLEAN :
          /\ builder = Utf8Builder_new(is_nullable)
          /\ call = [NoBuilderCall EXCEPT !.nullable = is_nullable]
    /\ written = <<>>
    /\ DeserAtRest

BuilderCalled(op, arg, r) ==
    /\ builder' = r.builder
    /\ call' = [op |-> op, arg |-> arg, ok |-> r.ok, err |-> r.err,
                pre |-> builder, nullable |-> call.nullable]
    /\ written' = IF r.ok THEN Append(written, RowOf(arg)) ELSE written
    /\ UNCHANGED <<sinkVars, deserVars>>

CanCall == call.ok /\ Len(written) < MaxWritten

SerializeDefault ==
    /\ CanCall
    /\ BuilderCalled("serialize_default", NoneVal, serialize_default(builder))

SerializeNone ==
    /\ CanCall
    /\ BuilderCalled("serialize_none", NoneVal, serialize_none(builder))

SerializeStr(s) ==
    /\ CanCall
    /\ BuilderCalled("serialize_str", StrVal(s), serialize_str(builder, s))

SerializeSome(value) ==
    /\ CanCall
    /\ BuilderCalled("serialize_some", value, serialize_some(builder, value))

NextUtf8 ==
    \/ SerializeDefault
    \/ SerializeNone
    \/ \E s \in StrValues : SerializeStr(s)
    \/ \E value \in OptValues : SerializeSome(value)

SpecUtf8 == InitUtf8 /\ [][NextUtf8]_vars

----------------------------------------------------------------------------
(* IntegerDeserializer<T> (internal/deserialization/integer_deserializer.rs) *)
(* The view is [kind, type, values, valid]: the element type, the stored   *)
(* values and, per row, whether it is defined.  `read` is the latest       *)
(* deserialize_* call: the method, the row, and what the visitor was given *)
(* or the error.                                                           *)

IntTypes == {"i8", "i16", "i32", "i64", "u8", "u16", "u32", "u64"}

\* the values of each integer type, as far as the checker's integers reach:
\* the upper ends of u32, i64 and u64 and the lower end of i64 lie beyond
InRange(type, v) ==
    CASE type = "i8" -> v >= -128 /\ v <= 127
      [] type = "i16" -> v >= -32768 /\ v <= 32767
      [] type = "i32" -> v >= -2147483647 - 1 /\ v <= 2147483647
      [] type = "i64" -> TRUE
      [] type = "u8" -> v >= 0 /\ v <= 255
      [] type = "u16" -> v >= 0 /\ v <= 65535
      [] type = "u32" -> v >= 0
      [] type = "u64" -> v >= 0

ReadOk(visited, value) ==
    [ok |-> TRUE, err |-> "", visited |-> visited, value |-> value]

ReadErr(e) == [ok |-> FALSE, err |-> e, visited |-> "", value |-> 0]

\* Integer::into_i8 .. into_u64 of a stored value: a checked conversion
Integer_into(target, self) ==
    IF InRange(target, self) THEN ReadOk(target, self) ELSE ReadErr("overflow")

\* ViewAccess::get_required(idx): the value of a row that is defined
get_required(v, idx) ==
    IF idx >= Len(v.values) THEN ReadErr("out of bounds")
    ELSE IF ~v.valid[idx + 1] THEN ReadErr("required value is not defined")
    ELSE ReadOk(v.type, v.values[idx + 1])

IntegerMethods ==
    {"deserialize_u8", "deserialize_u16", "deserialize_u32", "deserialize_u64",
     "deserialize_i8", "deserialize_i16", "deserialize_i32", "deserialize_i64"}

IntegerConversions_u8_as_u16 ==
    [deserialize_u8 |-> [into |-> "u16", visit |-> "u8"],
     deserialize_u16 |-> [into |-> "u16", visit |-> "u16"],
     deserialize_u32 |-> [into |-> "u32", visit |-> "u32"],
     deserialize_u64 |-> [into |-> "u64", visit |-> "u64"],
     deserialize_i8 |-> [into |-> "i8", visit |-> "i8"],
     deserialize_i16 |-> [into |-> "i16", visit |-> "i16"],
     deserialize_i32 |-> [into |-> "i32", visit |-> "i32"],
     deserialize_i64 |-> [into |-> "i64", visit |-> "i64"]]

\* the conversion each deserialize_* applies and the visitor method it calls
IntegerConversions ==
    [deserialize_u8 |-> [into |-> "u8", visit |-> "u8"],
     deserialize_u16 |-> [into |-> "u16", visit |-> "u16"],
     deserialize_u32 |-> [into |-> "u32", visit |-> "u32"],
     deserialize_u64 |-> [into |-> "u64", visit |-> "u64"],
     deserialize_i8 |-> [into |-> "i8", visit |-> "i8"],
     deserialize_i16 |-> [into |-> "i16", visit |-> "i16"],
     deserialize_i32 |-> [into |-> "i32", visit |-> "i32"],
     deserialize_i64 |-> [into |-> "i64", visit |-> "i64"]]

\* visitor.visit_<t>(self.view.get_required(idx)?.into_<t>()?)
IntegerDeserialize(v, method, idx) ==
    LET stored == get_required(v, idx)
        converted == Integer_into(IntegerConversions[method].into, stored.value)
    IN  IF ~stored.ok THEN stored
        ELSE IF ~converted.ok THEN converted
        ELSE ReadOk(IntegerConversions[method].visit, converted.value)

\* stored values around the ends of the 8- and 16-bit ranges
IntSamples == {-32769, -129, -128, -1, 0, 127, 128, 255, 256, 300, 32768, 65536}

\* the arrays of element type t
IntegerViewsOf(t) ==
    {[kind |-> "integer", type |-> t, values |-> vs, valid |-> ok] :
        vs \in UNION {[1..n -> {x \in IntSamples : InRange(t, x)}] : n \in 1..MaxArrayLen},
        ok \in UNION {[1..n -> BOOLEAN] : n \in 1..MaxArrayLen}}

IntegerViews ==
    {v \in UNION {IntegerViewsOf(t) : t \in IntTypes} : Len(v.values) = Len(v.valid)}

InitInteger ==
    /\ SinkAtRest
    /\ BuilderAtRest
    /\ view \in IntegerViews
    /\ read = NoRead

IntegerRead(method, idx) ==
    /\ view.kind = "integer"
    /\ LET r == IntegerDeserialize(view, method, idx)
       IN  read' = [op |-> method, idx |-> idx, ok |-> r.ok, err |-> r.err,
                    visited |-> r.visited, value |-> r.value]
    /\ UNCHANGED <<sinkVars, builderVars, view>>

NextInteger ==
    \E method \in IntegerMethods, idx \in 0..MaxArrayLen : IntegerRead(method, idx)

SpecInteger == InitInteger /\ [][NextInteger]_vars

----------------------------------------------------------------------------
(* Integer arithmetic and text as the deserializers use them               *)
(* A String is the sequence of its characters.                             *)

\* i64 `/` with a positive divisor: the quotient is rounded towards zero
RustDiv(a, b) == IF a >= 0 THEN a \div b ELSE -((-a) \div b)

\* i64 `%`: the remainder has the sign of the dividend
RustRem(a, b) == a - b * RustDiv(a, b)

\* `as u32` of an i64 within the 32-bit range: the value modulo 2^32, held
\* as hi * 2^31 + lo
AsU32(x) ==
    IF x >= 0 THEN [hi |-> 0, lo |-> x]
    ELSE [hi |-> 1, lo |-> (x + 2147483647) + 1]

Digit(d) == <<"0", "1", "2", "3", "4", "5", "6", "7", "8", "9">>[d + 1]

RECURSIVE Decimal(_)
\* a natural number in decimal
Decimal(n) ==
    IF n < 10 THEN <<Digit(n)>> ELSE Decimal(n \div 10) \o <<Digit(n % 10)>>

RECURSIVE Zeros(_)
Zeros(k) == IF k <= 0 THEN <<>> ELSE <<"0">> \o Zeros(k - 1)

\* {:0width}: zero-padded to at least `width` characters
ZeroPad(n, width) == Zeros(width - Len(Decimal(n))) \o Decimal(n)

----------------------------------------------------------------------------
(* TimeDeserializer<T> (internal/deserialization/time_deserializer.rs)     *)
(* The view is the deserializer: the element type, the unit, the two       *)
(* factors, the array and the position `next` of its iterator.             *)

TimeUnits == {"Nanosecond", "Microsecond", "Millisecond", "Second"}

\* (seconds_factor, nanoseconds_factor) of each unit
TimeFactors ==
    [Nanosecond |-> [seconds_factor |-> 1000000000, nanoseconds_factor |-> 1],
     Microsecond |-> [seconds_factor |-> 1000000, nanoseconds_factor |-> 1000],
     Millisecond |-> [seconds_factor |-> 1000, nanoseconds_factor |-> 1000000],
     Second |-> [seconds_factor |-> 1, nanoseconds_factor |-> 1000000000]]

TimeDeserializer_new(type, unit, values, valid) ==
    [kind |-> "time", type |-> type, unit |-> unit,
     values |-> values, valid |-> valid, next |-> 0,
     seconds_factor |-> TimeFactors[unit].seconds_factor,
     nanoseconds_factor |-> TimeFactors[unit].nanoseconds_factor]

NoTime == [some |-> FALSE, secs |-> 0, frac |-> 0]

\* chrono, NaiveTime::from_num_seconds_from_midnight_opt
from_num_seconds_from_midnight_opt(secs, nano) ==
    IF /\ secs.hi = 0 /\ secs.lo < 86400
       /\ nano.hi = 0 /\ nano.lo < 2000000000
    THEN [some |-> TRUE, secs |-> secs.lo, frac |-> nano.lo]
    ELSE NoTime

\* chrono, Display for NaiveTime: HH:MM:SS and the fraction, if there is
\* one, in 3, 6 or 9 digits
NaiveTime_to_string(t) ==
    LET leap == t.frac >= 1000000000
        sec == (t.secs % 60) + (IF leap THEN 1 ELSE 0)
        nano == IF leap THEN t.frac - 1000000000 ELSE t.frac
        hms == ZeroPad(t.secs \div 3600, 2) \o <<":">>
                 \o ZeroPad((t.secs \div 60) % 60, 2) \o <<":">> \o ZeroPad(sec, 2)
    IN  IF nano = 0 THEN hms
        ELSE IF nano % 1000000 = 0 THEN hms \o <<".">> \o ZeroPad(nano \div 1000000, 3)
        ELSE IF nano % 1000 = 0 THEN hms \o <<".">> \o ZeroPad(nano \div 1000, 6)
        ELSE hms \o <<".">> \o ZeroPad(nano, 9)

TextOk(s, t) == [ok |-> TRUE, err |-> "", value |-> s, time |-> t]

TextErr(e) == [ok |-> FALSE, err |-> e, value |-> <<>>, time |-> NoTime]

\* TimeDeserializer::get_string_repr
TimeDeserializer_get_string_repr(self, ts) ==
    LET seconds == AsU32(RustDiv(ts, self.seconds_factor))
        nanoseconds ==
            AsU32(RustDiv(RustRem(ts, self.seconds_factor), self.nanoseconds_factor))
        res == from_num_seconds_from_midnight_opt(seconds, nanoseconds)
    IN  IF ~res.some THEN TextErr("Invalid timestamp")
        ELSE TextOk(NaiveTime_to_string(res), res)

\* ArrayBufferIterator::next_required: the next row, which has to be there
\* and defined
next_required(self) ==
    IF self.next >= Len(self.values) THEN ReadErr("exhausted")
    ELSE IF ~self.valid[self.next + 1] THEN ReadErr("required value is not defined")
    ELSE ReadOk(self.type, self.values[self.next + 1])

\* deserialize_string_impl: the row as i64, rendered, given to visit_string
TimeDeserializeString(self) ==
    LET row == next_required(self)
        ts == Integer_into("i64", row.value)
    IN  IF ~row.ok THEN TextErr(row.err)
        ELSE IF ~ts.ok THEN TextErr(ts.err)
        ELSE TimeDeserializer_get_string_repr(self, ts.value)

\* raw values around zero, one second and one day
TimeSamples ==
    {-2147483647, -1000, -1, 0, 1, 999, 1000, 1500, 86399, 86400,
     86399999, 86400000, 1000000000, 1500000000, 2147483647}

\* Time32 holds i32, Time64 holds i64
TimeViews ==
    {v \in {TimeDeserializer_new(type, unit, values, valid) :
                type \in {"i32", "i64"}, unit \in TimeUnits,
                values \in UNION {[1..n -> TimeSamples] : n \in 1..MaxArrayLen},
                valid \in UNION {[1..n -> BOOLEAN] : n \in 1..MaxArrayLen}} :
        Len(v.values) = Len(v.valid)}

InitTime ==
    /\ SinkAtRest
    /\ BuilderAtRest
    /\ view \in TimeViews
    /\ read = NoRead

\* deserialize_string / deserialize_str of the next row
TimeReadString ==
    /\ view.kind = "time"
    /\ view.next < Len(view.values)
    /\ LET r == TimeDeserializeString(view)
       IN  read' = [op |-> "deserialize_string", idx |-> view.next,
                    ok |-> r.ok, err |-> r.err, value |-> r.value, time |-> r.time]
    /\ view' = [view EXCEPT !.next = @ + 1]
    /\ UNCHANGED <<sinkVars, builderVars>>

NextTime == TimeReadString

SpecTime == InitTime /\ [][NextTime]_vars

----------------------------------------------------------------------------
(* DateDeserializer<I> (internal/deserialization/date_deserializer.rs)     *)
(* A stored value is held as [hi, lo], standing for                        *)
(* hi * DAY_TO_VALUE_FACTOR + lo with 0 <= lo < DAY_TO_VALUE_FACTOR: the   *)
(* milliseconds of a Date64 far from the epoch are beyond the checker's    *)
(* integers.  For Date32 the factor is 1 and lo is 0.                      *)

DateTypes == {"i32", "i64"}

DAY_TO_VALUE_FACTOR == [i32 |-> 1, i64 |-> 86400000]

DateValue(hi, lo) == [hi |-> hi, lo |-> lo]

\* ts / I::DAY_TO_VALUE_FACTOR: the quotient rounded towards zero
DivByDayFactor(ts) == IF ts.hi < 0 /\ ts.lo > 0 THEN ts.hi + 1 ELSE ts.hi

\* chrono, NaiveDate: the dates from -262143-01-01 to +262142-12-31, as
\* days from 1970-01-01
DateInRange(days) == days >= -96465292 /\ days <= 95026236

\* chrono, UNIX_EPOCH + Duration::days(ts): year, month and day in the
\* proleptic Gregorian calendar
CivilFromDays(days) ==
    LET z == days + 719468
        era == z \div 146097
        doe == z - era * 146097
        yoe == (doe - doe \div 1460 + doe \div 36524 - doe \div 146096) \div 365
        doy == doe - (365 * yoe + yoe \div 4 - yoe \div 100)
        mp == (5 * doy + 2) \div 153
        m == IF mp < 10 THEN mp + 3 ELSE mp - 9
    IN  [year |-> yoe + era * 400 + (IF m <= 2 THEN 1 ELSE 0),
         month |-> m,
         day |-> doy - (153 * mp + 2) \div 5 + 1]

\* chrono, Display for NaiveDate: four digits for the years 0..9999, a sign
\* and at least four digits otherwise
NaiveDate_to_string(date) ==
    LET year == IF date.year >= 0 /\ date.year <= 9999 THEN ZeroPad(date.year, 4)
                ELSE IF date.year < 0 THEN <<"-">> \o ZeroPad(-date.year, 4)
                ELSE <<"+">> \o ZeroPad(date.year, 4)
    IN  year \o <<"-">> \o ZeroPad(date.month, 2) \o <<"-">> \o ZeroPad(date.day, 2)

NoDate == [year |-> 0, month |-> 0, day |-> 0]

DateOk(s, date) ==
    [ok |-> TRUE, err |-> "", panic |-> FALSE, value |-> s, date |-> date]

DateErr(e) ==
    [ok |-> FALSE, err |-> e, panic |-> FALSE, value |-> <<>>, date |-> NoDate]

\* the addition of a Duration that leaves the range of NaiveDate panics
DatePanic ==
    [ok |-> FALSE, err |-> "", panic |-> TRUE, value |-> <<>>, date |-> NoDate]

DateDeserializer_get_string_repr_default_format(ts) ==
    LET days == DivByDayFactor(ts)
        date == CivilFromDays(days)
    IN  IF ~DateInRange(days) THEN DatePanic
        ELSE DateOk(NaiveDate_to_string(date), date)

\* DateDeserializer::get_string_repr
DateDeserializer_get_string_repr(ts) ==
    LET days == DivByDayFactor(ts)
        date == CivilFromDays(days)
    IN  IF ~DateInRange(days) THEN DatePanic
        ELSE IF date.year < 0
        THEN DateOk(<<"-">> \o ZeroPad(-date.year, 6) \o <<"-">>
                      \o ZeroPad(date.month, 2) \o <<"-">> \o ZeroPad(date.day, 2),
                    date)
        ELSE DateOk(NaiveDate_to_string(date), date)

DateDeserializer_new(type, values, valid) ==
    [kind |-> "date", type |-> type, values |-> values, valid |-> valid, next |-> 0]

\* RandomAccessDeserializer::deserialize_string(visitor, idx)
DateDeserializeString(self, idx) ==
    LET ts == get_required(self, idx)
    IN  IF ~ts.ok THEN DateErr(ts.err)
        ELSE DateDeserializer_get_string_repr(ts.value)

\* SimpleDeserializer::deserialize_string(visitor)
DateDeserializeNextString(self) ==
    LET ts == next_required(self)
    IN  IF ~ts.ok THEN DateErr(ts.err)
        ELSE DateDeserializer_get_string_repr(ts.value)

\* ViewAccess::is_some(idx)
is_some(self, idx) ==
    IF idx >= Len(self.values) THEN [ok |-> FALSE, err |-> "out of bounds", some |-> FALSE]
    ELSE [ok |-> TRUE, err |-> "", some |-> self.valid[idx + 1]]

\* whether a stored value is an i32: every i32 is, and an i64 from
\* -2^31 = -25 * 86_400_000 + 12_516_352 to 2^31 - 1 = 24 * 86_400_000 + 73_883_647
FitsI32(type, ts) ==
    \/ type = "i32"
    \/ /\ ts.hi > -25 \/ (ts.hi = -25 /\ ts.lo >= 12516352)
       /\ ts.hi < 24 \/ (ts.hi = 24 /\ ts.lo <= 73883647)

IntegerVisited(visited, num) ==
    [ok |-> TRUE, err |-> "", visited |-> visited, num |-> num]

IntegerFailed(e) == [ok |-> FALSE, err |-> e, visited |-> "", num |-> DateValue(0, 0)]

\* deserialize_i32(visitor, idx): (*val).try_into() to i32, visit_i32
DateDeserializer_deserialize_i32(self, idx) ==
    LET val == get_required(self, idx)
    IN  IF ~val.ok THEN IntegerFailed(val.err)
        ELSE IF ~FitsI32(self.type, val.value) THEN IntegerFailed("Cannot convert to i32")
        ELSE IntegerVisited("i32", val.value)

DateDeserializer_deserialize_i64_by_cursor(self, idx) ==
    LET val == next_required(self)
    IN  IF ~val.ok THEN IntegerFailed(val.err)
        ELSE IntegerVisited("i64", val.value)

\* deserialize_i64(visitor, idx): (*val).try_into() to i64, visit_i64
DateDeserializer_deserialize_i64(self, idx) ==
    LET val == get_required(self, idx)
    IN  IF ~val.ok THEN IntegerFailed(val.err)
        ELSE IntegerVisited("i64", val.value)

\* deserialize_any(visitor, idx)
DateDeserializer_deserialize_any(self, idx) ==
    LET some == is_some(self, idx)
    IN  IF ~some.ok THEN IntegerFailed(some.err)
        ELSE IF some.some THEN DateDeserializer_deserialize_i32(self, idx)
        ELSE IntegerVisited("none", DateValue(0, 0))

DateMethods == {"deserialize_any", "deserialize_i32", "deserialize_i64"}

DateDeserialize(self, method, idx) ==
    CASE method = "deserialize_any" -> DateDeserializer_deserialize_any(self, idx)
      [] method = "deserialize_i32" -> DateDeserializer_deserialize_i32(self, idx)
      [] method = "deserialize_i64" -> DateDeserializer_deserialize_i64(self, idx)

\* days from 1970-01-01: the first and last day of year -1, the first of
\* year 0, a day of year -10000, the days around the epoch, 2024-02-29, the
\* last day of 9999 and the first of 10000, and a day before every date
DaySamples ==
    {-2147483647, -4371889, -719893, -719529, -719528, -1, 0, 1, 19782,
     2932896, 2932897}

\* milliseconds within a day
MillisSamples == {0, 1, 86399999}

DateSamples(type) ==
    IF type = "i32" THEN {DateValue(d, 0) : d \in DaySamples}
    ELSE {DateValue(d, ms) : d \in DaySamples, ms \in MillisSamples}

DateViewsOf(type) ==
    {DateDeserializer_new(type, values, valid) :
        values \in UNION {[1..n -> DateSamples(type)] : n \in 1..MaxArrayLen},
        valid \in UNION {[1..n -> BOOLEAN] : n \in 1..MaxArrayLen}}

DateViews ==
    {v \in UNION {DateViewsOf(type) : type \in DateTypes} :
        Len(v.values) = Len(v.valid)}

InitDate ==
    /\ SinkAtRest
    /\ BuilderAtRest
    /\ view \in DateViews
    /\ read = NoRead

DateReadString(idx) ==
    /\ view.kind = "date"
    /\ LET r == DateDeserializeString(view, idx)
       IN  read' = [op |-> "deserialize_string", idx |-> idx, access |-> "random",
                    next |-> view.next, ok |-> r.ok,
                    err |-> r.err, panic |-> r.panic, value |-> r.value,
                    date |-> r.date, visited |-> "string", num |-> DateValue(0, 0)]
    /\ UNCHANGED <<sinkVars, builderVars, view>>

\* RandomAccessDeserializer::deserialize_any / deserialize_i32 /
\* deserialize_i64 (visitor, idx)
DateReadInteger(method, idx) ==
    /\ view.kind = "date"
    /\ LET r == DateDeserialize(view, method, idx)
       IN  read' = [op |-> method, idx |-> idx, access |-> "random",
                    next |-> view.next, ok |-> r.ok,
                    err |-> r.err, panic |-> FALSE, value |-> <<>>,
                    date |-> NoDate, visited |-> r.visited, num |-> r.num]
    /\ UNCHANGED <<sinkVars, builderVars, view>>

\* SimpleDeserializer::deserialize_string(visitor): the row at the cursor,
\* which moves on
DateNextString ==
    /\ view.kind = "date"
    /\ view.next < Len(view.values)
    /\ LET r == DateDeserializeNextString(view)
       IN  read' = [op |-> "deserialize_string", idx |-> view.next,
                    access |-> "cursor", next |-> view.next, ok |-> r.ok,
                    err |-> r.err, panic |-> r.panic, value |-> r.value,
                    date |-> r.date, visited |-> "string", num |-> DateValue(0, 0)]
    /\ view' = [view EXCEPT !.next = @ + 1]
    /\ UNCHANGED <<sinkVars, builderVars>>

NextDate ==
    \/ \E idx \in 0..MaxArrayLen : DateReadString(idx)
    \/ \E method \in DateMethods, idx \in 0..MaxArrayLen : DateReadInteger(method, idx)
    \/ DateNextString

SpecDate == InitDate /\ [][NextDate]_vars

----------------------------------------------------------------------------
(* The construction of a dictionary deserializer                           *)
(* (ArrayDeserializer::new in internal/deserialization/                    *)
(* array_deserializer.rs, build_dictionary_deserializer in                 *)
(* arrow2_impl/deserialization.rs)                                         *)
(* The view is what the deserializer is built from: the kinds of the key   *)
(* and value views, or the field's children and the array.                 *)

\* D::Dictionary<key><offset>, e.g. D::DictionaryU8I32
DictionaryVariant(key, offset) == [key |-> key, offset |-> offset]

NoVariant == DictionaryVariant("", "")

BuiltOk(variant) == [ok |-> TRUE, err |-> "", variant |-> variant]

BuiltErr(e) == [ok |-> FALSE, err |-> e, variant |-> NoVariant]

\* variants of View
KeyViews ==
    {"Int8", "Int16", "Int32", "Int64", "UInt8", "UInt16", "UInt32", "UInt64"}

ViewKinds ==
    KeyViews \cup {"Utf8", "LargeUtf8", "Utf8View", "Boolean", "Float64", "Binary"}

DictionaryArms_u8_as_i8 ==
    {
     [keys |-> "Int8", values |-> "Utf8", variant |-> DictionaryVariant("I8", "I32")],
     [keys |-> "Int16", values |-> "Utf8", variant |-> DictionaryVariant("I16", "I32")],
     [keys |-> "Int32", values |-> "Utf8", variant |-> DictionaryVariant("I32", "I32")],
     [keys |-> "Int64", values |-> "Utf8", variant |-> DictionaryVariant("I64", "I32")],
     [keys |-> "UInt8", values |-> "Utf8", variant |-> DictionaryVariant("I8", "I32")],
     [keys |-> "UInt16", values |-> "Utf8", variant |-> DictionaryVariant("U16", "I32")],
     [keys |-> "UInt32", values |-> "Utf8", variant |-> DictionaryVariant("U32", "I32")],
     [keys |-> "UInt64", values |-> "Utf8", variant |-> DictionaryVariant("U64", "I32")],
     [keys |-> "Int8", values |-> "LargeUtf8", variant |-> DictionaryVariant("I8", "I64")],
     [keys |-> "Int16", values |-> "LargeUtf8", variant |-> DictionaryVariant("I16", "I64")],
     [keys |-> "Int32", values |-> "LargeUtf8", variant |-> DictionaryVariant("I32", "I64")],
     [keys |-> "Int64", values |-> "LargeUtf8", variant |-> DictionaryVariant("I64", "I64")],
     [keys |-> "UInt8", values |-> "LargeUtf8", variant |-> DictionaryVariant("U8", "I64")],
     [keys |-> "UInt16", values |-> "LargeUtf8", variant |-> DictionaryVariant("U16", "I64")],
     [keys |-> "UInt32", values |-> "LargeUtf8", variant |-> DictionaryVariant("U32", "I64")],
     [keys |-> "UInt64", values |-> "LargeUtf8", variant |-> DictionaryVariant("U64", "I64")]
    }

\* the arms of `match (*view.keys, *view.values)`
DictionaryArms ==
    {
     [keys |-> "Int8", values |-> "Utf8", variant |-> DictionaryVariant("I8", "I32")],
     [keys |-> "Int16", values |-> "Utf8", variant |-> DictionaryVariant("I16", "I32")],
     [keys |-> "Int32", values |-> "Utf8", variant |-> DictionaryVariant("I32", "I32")],
     [keys |-> "Int64", values |-> "Utf8", variant |-> DictionaryVariant("I64", "I32")],
     [keys |-> "UInt8", values |-> "Utf8", variant |-> DictionaryVariant("U8", "I32")],
     [keys |-> "UInt16", values |-> "Utf8", variant |-> DictionaryVariant("U16", "I32")],
     [keys |-> "UInt32", values |-> "Utf8", variant |-> DictionaryVariant("U32", "I32")],
     [keys |-> "UInt64", values |-> "Utf8", variant |-> DictionaryVariant("U64", "I32")],
     [keys |-> "Int8", values |-> "LargeUtf8", variant |-> DictionaryVariant("I8", "I64")],
     [keys |-> "Int16", values |-> "LargeUtf8", variant |-> DictionaryVariant("I16", "I64")],
     [keys |-> "Int32", values |-> "LargeUtf8", variant |-> DictionaryVariant("I32", "I64")],
     [keys |-> "Int64", values |-> "LargeUtf8", variant |-> DictionaryVariant("I64", "I64")],
     [keys |-> "UInt8", values |-> "LargeUtf8", variant |-> DictionaryVariant("U8", "I64")],
     [keys |-> "UInt16", values |-> "LargeUtf8", variant |-> DictionaryVariant("U16", "I64")],
     [keys |-> "UInt32", values |-> "LargeUtf8", variant |-> DictionaryVariant("U32", "I64")],
     [keys |-> "UInt64", values |-> "LargeUtf8", variant |-> DictionaryVariant("U64", "I64")]
    }

\* DictionaryDeserializer::new
DictionaryDeserializer_new(variant) == BuiltOk(variant)

\* ArrayDeserializer::new, V::Dictionary(view)
ArrayDeserializer_new_dictionary(keys, values) ==
    LET arms == {a \in DictionaryArms : a.keys = keys /\ a.values = values}
    IN  IF arms = {} THEN BuiltErr("Unsupported dictionary array type")
        ELSE DictionaryDeserializer_new((CHOOSE a \in arms : TRUE).variant)

\* variants of GenericDataType
KeyDataTypes == {"I8", "I16", "I32", "I64", "U8", "U16", "U32", "U64"}

DataTypes == KeyDataTypes \cup {"Utf8", "LargeUtf8", "Bool", "F64", "Binary"}

\* the arms of `match (&key_field.data_type, &value_field.data_type)`:
\* typed::<K, V>
TypedArms ==
    {
     [key |-> "U8", value |-> "Utf8", K |-> "U8", V |-> "I32"],
     [key |-> "U16", value |-> "Utf8", K |-> "U16", V |-> "I32"],
     [key |-> "U32", value |-> "Utf8", K |-> "U32", V |-> "I32"],
     [key |-> "U64", value |-> "Utf8", K |-> "U64", V |-> "I32"],
     [key |-> "I8", value |-> "Utf8", K |-> "I8", V |-> "I32"],
     [key |-> "I16", value |-> "Utf8", K |-> "I16", V |-> "I32"],
     [key |-> "I32", value |-> "Utf8", K |-> "I32", V |-> "I32"],
     [key |-> "I64", value |-> "Utf8", K |-> "I64", V |-> "I32"],
     [key |-> "U8", value |-> "LargeUtf8", K |-> "U8", V |-> "I64"],
     [key |-> "U16", value |-> "LargeUtf8", K |-> "U16", V |-> "I64"],
     [key |-> "U32", value |-> "LargeUtf8", K |-> "U32", V |-> "I64"],
     [key |-> "U64", value |-> "LargeUtf8", K |-> "U64", V |-> "I64"],
     [key |-> "I8", value |-> "LargeUtf8", K |-> "I8", V |-> "I64"],
     [key |-> "I16", value |-> "LargeUtf8", K |-> "I16", V |-> "I64"],
     [key |-> "I32", value |-> "LargeUtf8", K |-> "I32", V |-> "I64"],
     [key |-> "I64", value |-> "LargeUtf8", K |-> "I64", V |-> "I64"]
    }

NoArray == [dictionary |-> FALSE, key |-> "", offset |-> ""]

\* a DictionaryArray<key> over a Utf8Array<offset>
DictionaryArray(key, offset) == [dictionary |-> TRUE, key |-> key, offset |-> offset]

\* typed::<K, V>(field, array): both downcasts have to succeed
typed(K, V, array) ==
    IF ~(array.dictionary /\ array.key = K)
    THEN BuiltErr("cannot convert array into dictionary array")
    ELSE IF array.offset # V THEN BuiltErr("invalid values")
    ELSE BuiltOk(DictionaryVariant(K, V))

\* build_dictionary_deserializer(field, array)
build_dictionary_deserializer(children, array) ==
    IF Len(children) < 1 THEN BuiltErr("Missing key field")
    ELSE IF Len(children) < 2 THEN BuiltErr("Missing key field")
    ELSE LET arms == {a \in TypedArms :
                          a.key = children[1] /\ a.value = children[2]}
             arm == CHOOSE a \in arms : TRUE
         IN  IF arms = {} THEN BuiltErr("invalid dicitonary key / value data type")
             ELSE typed(arm.K, arm.V, array)

DictionaryView(via, keys, values, children, array) ==
    [kind |-> "dictionary", via |-> via, keys |-> keys, values |-> values,
     children |-> children, array |-> array]

\* a dictionary view of any two views
ViewInputs ==
    {DictionaryView("ArrayDeserializer::new", k, v, <<>>, NoArray) :
        k \in ViewKinds, v \in ViewKinds}

Arrays ==
    {NoArray} \cup {DictionaryArray(k, o) : k \in KeyDataTypes, o \in {"I32", "I64"}}

\* a Dictionary field with its children, and an array
FieldInputs ==
    {DictionaryView("build_dictionary_deserializer", "", "", children, array) :
        children \in UNION {[1..n -> DataTypes] : n \in 0..MaxChildren},
        array \in Arrays}

InitDictionary ==
    /\ SinkAtRest
    /\ BuilderAtRest
    /\ view \in ViewInputs \cup FieldInputs
    /\ read = NoRead

Built(r) ==
    /\ read = NoRead
    /\ read' = [op |-> "new", ok |-> r.ok, err |-> r.err, variant |-> r.variant]
    /\ UNCHANGED <<sinkVars, builderVars, view>>

ArrayDeserializerNew ==
    /\ view.kind = "dictionary"
    /\ view.via = "ArrayDeserializer::new"
    /\ Built(ArrayDeserializer_new_dictionary(view.keys, view.values))

BuildDictionaryDeserializer ==
    /\ view.kind = "dictionary"
    /\ view.via = "build_dictionary_deserializer"
    /\ Built(build_dictionary_deserializer(view.children, view.array))

NextDictionary == ArrayDeserializerNew \/ BuildDictionaryDeserializer

SpecDictionary == InitDictionary /\ [][NextDictionary]_vars

----------------------------------------------------------------------------
(* build_struct_fields (arrow2_impl/deserialization.rs)                    *)
(* A field is its name; an array is [id, len, supported]: which array it   *)
(* is, its length and whether build_array_deserializer can build a         *)
(* deserializer for it.  A built deserializer is known by the array it     *)
(* reads.                                                                  *)

StructField(name) == [name |-> name]

StructArray(id, len, supported) == [id |-> id, len |-> len, supported |-> supported]

StructOk(deserializers, len) ==
    [ok |-> TRUE, err |-> "", deserializers |-> deserializers, len |-> len]

StructErr(e) == [ok |-> FALSE, err |-> e, deserializers |-> <<>>, len |-> 0]

\* build_array_deserializer(field, array)
build_array_deserializer(field, array) ==
    IF array.supported THEN [ok |-> TRUE, err |-> "", array |-> array.id]
    ELSE [ok |-> FALSE, err |-> "cannot build deserializer", array |-> array.id]

build_struct_fields_any_length(fields, arrays) ==
    IF Len(fields) # Len(arrays)
    THEN StructErr("different number of fields and arrays")
    ELSE LET len == IF arrays = <<>> THEN 0 ELSE arrays[1].len
             failing == {i \in 1..Len(arrays) :
                            ~build_array_deserializer(fields[i], arrays[i]).ok}
         IN  IF failing # {}
             THEN StructErr(build_array_deserializer(
                     fields[CHOOSE i \in failing : \A j \in failing : i <= j],
                     arrays[CHOOSE i \in failing : \A j \in failing : i <= j]).err)
             ELSE StructOk([i \in 1..Len(fields) |->
                               <<fields[i].name,
                                 build_array_deserializer(fields[i], arrays[i]).array>>],
                           len)

\* build_struct_fields(fields, arrays): the loop stops at the first array
\* of another length or without a deserializer
build_struct_fields(fields, arrays) ==
    IF Len(fields) # Len(arrays)
    THEN StructErr("different number of fields and arrays")
    ELSE LET len == IF arrays = <<>> THEN 0 ELSE arrays[1].len
             failing == {i \in 1..Len(arrays) :
                            \/ arrays[i].len # len
                            \/ ~build_array_deserializer(fields[i], arrays[i]).ok}
             first == CHOOSE i \in failing : \A j \in failing : i <= j
         IN  IF failing # {}
             THEN IF arrays[first].len # len
                  THEN StructErr("arrays of different lengths are not supported")
                  ELSE StructErr(build_array_deserializer(fields[first], arrays[first]).err)
             ELSE StructOk([i \in 1..Len(fields) |->
                               <<fields[i].name,
                                 build_array_deserializer(fields[i], arrays[i]).array>>],
                           len)

FieldNames == {"a", "b"}

\* the arrays at the positions 1..n: array i has the id i
ArraySeqs(n) ==
    {[i \in 1..n |-> StructArray(i, lens[i], sup[i])] :
        lens \in [1..n -> 0..MaxArrayLen], sup \in [1..n -> BOOLEAN]}

StructInputs ==
    {[kind |-> "struct", fields |-> fields, arrays |-> arrays] :
        fields \in UNION {[1..n -> {StructField(name) : name \in FieldNames}] :
                             n \in 0..MaxFields},
        arrays \in UNION {ArraySeqs(n) : n \in 0..MaxFields}}

InitStruct ==
    /\ SinkAtRest
    /\ BuilderAtRest
    /\ view \in StructInputs
    /\ read = NoRead

BuildStructFields ==
    /\ view.kind = "struct"
    /\ read = NoRead
    /\ LET r == build_struct_fields(view.fields, view.arrays)
       IN  read' = [op |-> "build_struct_fields", ok |-> r.ok, err |-> r.err,
                    deserializers |-> r.deserializers, len |-> r.len]
    /\ UNCHANGED <<sinkVars, builderVars, view>>

NextStruct == BuildStructFields

SpecStruct == InitStruct /\ [][NextStruct]_vars

----------------------------------------------------------------------------
(* GenericArrayBuilder and GenericArraysBuilder (internal/mod.rs)          *)
(* The array builder of a field holds the events it accepted, the number   *)
(* of finish calls and, for a Dictionary field, the strings it has given   *)
(* keys to (the key of a string is its position, from 0) and the keys of   *)
(* its rows.  Here `builder` is the generic builder, `written` holds the   *)
(* rows given to it since the last build, the number of builds and every   *)
(* (string, key) pair assigned so far, and `call` the latest call.         *)

\* generic_sinks::build_array_builder / build_struct_array_builder
ArrayBuilder_new(field) ==
    [field |-> field, events |-> <<>>, finished |-> 0, index |-> <<>>, keys |-> <<>>]

\* the key of a string that is in the index
KeyIn(index, s) == (CHOOSE i \in 1..Len(index) : index[i] = s) - 1

\* accept: a string new to a dictionary builder gets the next unused key
ArrayBuilder_accept(b, ev) ==
    IF b.field = "Dictionary" /\ ev.tag = "Str"
    THEN LET index == IF \E i \in 1..Len(b.index) : b.index[i] = ev.str
                      THEN b.index ELSE Append(b.index, ev.str)
         IN  [b EXCEPT !.events = Append(@, ev), !.index = index,
                       !.keys = Append(@, KeyIn(index, ev.str))]
    ELSE [b EXCEPT !.events = Append(@, ev)]

RECURSIVE ArrayBuilder_accept_all(_, _)
ArrayBuilder_accept_all(b, events) ==
    IF events = <<>> THEN b
    ELSE ArrayBuilder_accept_all(ArrayBuilder_accept(b, Head(events)), Tail(events))

ArrayBuilder_finish(b) == [b EXCEPT !.finished = @ + 1]

\* ArrayBuilder::build_array: the array, and the buffers cleared; a
\* dictionary builder keeps its key mapping
ArrayBuilder_build_array(b) ==
    [array |-> [events |-> b.events, keys |-> b.keys, finished |-> b.finished],
     builder |-> [b EXCEPT !.events = <<>>, !.keys = <<>>]]

NoArrayBuilt == [events |-> <<>>, keys |-> <<>>, finished |-> 0]

GenericArrayBuilder_new(kind, field) ==
    [kind |-> kind, field |-> field, builder |-> ArrayBuilder_new(field)]

GenericOk(self, out) == [ok |-> TRUE, builder |-> self, out |-> out]

GenericErr(self) == [ok |-> FALSE, builder |-> self, out |-> NoArrayBuilt]

\* push: item.serialize(EventSerializer(&mut self.builder))
GenericArrayBuilder_push(self, item) ==
    GenericOk([self EXCEPT !.builder = ArrayBuilder_accept_all(@, item)], NoArrayBuilt)

RECURSIVE ServeAll(_, _)
\* the events of a value handed to a stripper, up to the first Err
ServeAll(this, events) ==
    IF events = <<>> THEN Ok(this)
    ELSE LET e == Head(events)
             r == StripAcceptSpecific(this, MethodOfTag[e.tag], e.str, e.num)
         IN  IF r.ok THEN ServeAll(r.sink, Tail(events)) ELSE r

\* extend: the items go through StripOuterSequenceSink::new(&mut self.builder)
GenericArrayBuilder_extend(self, events) ==
    LET r == ServeAll(StripOuterSequenceSink_new(<<>>), events)
        served == [self EXCEPT !.builder = ArrayBuilder_accept_all(@, r.sink.wrapped)]
    IN  IF r.ok THEN GenericOk(served, NoArrayBuilt) ELSE GenericErr(served)

GenericArrayBuilder_build_unfinished(self) ==
    LET built == ArrayBuilder_build_array(self.builder)
    IN  GenericOk([self EXCEPT !.builder = ArrayBuilder_new(self.field)], built.array)

\* build_array / build_arrays: a new builder is swapped in, the old one is
\* finished and built
GenericArrayBuilder_build(self) ==
    LET built == ArrayBuilder_build_array(ArrayBuilder_finish(self.builder))
    IN  GenericOk([self EXCEPT !.builder = ArrayBuilder_new(self.field)], built.array)

\* the rows given to a builder: strings for an array builder, records for
\* an arrays builder
BuilderRows(kind) ==
    IF kind = "array" THEN {<<Ev("Str", "a", 0)>>, <<Ev("Str", "b", 0)>>}
    ELSE {<<Unit("StartStruct"), Ev("Str", "x", 0), Ev("I8", "", n), Unit("EndStruct")>> :
             n \in {1, 2}}

\* the (string, key) pairs of the rows a dictionary builder holds
KeysOf(b) ==
    IF b.field = "Dictionary"
    THEN {<<b.events[i].str, b.keys[i]>> : i \in 1..Len(b.keys)}
    ELSE {}

NoGenericCall == [op |-> "none", ok |-> TRUE, rows |-> <<>>, out |-> NoArrayBuilt]

InitGeneric ==
    /\ SinkAtRest
    /\ DeserAtRest
    /\ builder \in {GenericArrayBuilder_new("array", "Dictionary"),
                    GenericArrayBuilder_new("array", "Utf8"),
                    GenericArrayBuilder_new("arrays", "Struct")}
    /\ written = [rows |-> <<>>, builds |-> 0, keys |-> {}]
    /\ call = NoGenericCall

GenericCalled(op, rows, r) ==
    /\ builder' = r.builder
    /\ call' = [op |-> op, ok |-> r.ok, rows |-> written.rows, out |-> r.out]
    /\ written' = [rows |-> IF op = "build" THEN <<>>
                            ELSE IF r.ok THEN written.rows \o rows ELSE written.rows,
                   builds |-> written.builds + (IF op = "build" THEN 1 ELSE 0),
                   keys |-> written.keys \cup KeysOf(r.builder.builder)]
    /\ UNCHANGED <<sinkVars, deserVars>>

CanGrow == written.builds < MaxBuilds /\ Len(written.rows) < MaxRows

GenericPush(row) ==
    /\ CanGrow
    /\ row \in BuilderRows(builder.kind)
    /\ GenericCalled("push", <<row>>, GenericArrayBuilder_push(builder, row))

GenericExtend(rows) ==
    /\ CanGrow
    /\ \A i \in 1..Len(rows) : rows[i] \in BuilderRows(builder.kind)
    /\ GenericCalled("extend", rows, GenericArrayBuilder_extend(builder, StreamOf(rows)))

\* extend with one item in place of a sequence
GenericExtendItem(row) ==
    /\ CanGrow
    /\ row \in BuilderRows(builder.kind)
    /\ GenericCalled("extend", <<>>, GenericArrayBuilder_extend(builder, row))

GenericBuild ==
    /\ written.builds < MaxBuilds
    /\ GenericCalled("build", <<>>, GenericArrayBuilder_build(builder))

NextGeneric ==
    \/ \E row \in BuilderRows("array") \cup BuilderRows("arrays") : GenericPush(row)
    \/ \E rows \in UNION {[1..n -> BuilderRows("array") \cup BuilderRows("arrays")] :
                             n \in 0..MaxRows} : GenericExtend(rows)
    \/ \E row \in BuilderRows("array") \cup BuilderRows("arrays") : GenericExtendItem(row)
    \/ GenericBuild

SpecGeneric == InitGeneric /\ [][NextGeneric]_vars

----------------------------------------------------------------------------
(* Vocabulary of the properties *)

IsStart(e) == e.tag \in StartTags

IsEnd(e) == e.tag \in EndTags

IsMarker(e) == e.tag \in MarkerTags

IsValue(e) == e.tag \in ValueTags

\* a call has been made
Did == last.via # "none"

\* the latest call was made in state st
DidIn(st) == Did /\ last.pre.state = st

DidInItem == Did /\ last.pre.state.kind = "Item"

\* the latest call handed its event, unchanged, to the wrapped sink once
ForwardedOnce == sink.wrapped = Append(last.pre.wrapped, last.ev)

NotForwarded == sink.wrapped = last.pre.wrapped

\* the error of the latest call names its event and the state it came in
NamesEventAndState ==
    /\ last.err.ev = last.ev
    /\ last.err.state = last.pre.state.kind
    /\ last.err.depth = last.pre.state.depth
    /\ last.err.msg = "Invalid event in state for StripOuterSequence"

----------------------------------------------------------------------------
\* C1: of a well-formed stream StartSequence, (Item, row)*, EndSequence given
\* to a stripper in WaitForStart every event is accepted, the wrapped sink
\* ends up with exactly the rows' own events in order, and the stripper ends
\* in WaitForStart.
C1_StripsOuterSequence ==
    /\ last.ok
    /\ pos = Len(stream) =>
            /\ sink.wrapped = Concat(items)
            /\ sink.state = WaitForStart

C1_Witness ==
    /\ pos = Len(stream)
    /\ Len(items) = 2
    /\ Len(items[1]) > 4
    /\ items[1][1].tag = "StartStruct"
    /\ items[1][3].tag = "StartSequence"
    /\ items[2] = <<Unit("Some"), Ev("Str", "x", 0)>>
    /\ sink.wrapped = items[1] \o items[2]
    /\ sink.state = WaitForStart

----------------------------------------------------------------------------
\* C2: every end, value or marker event in WaitForStart, and every start
\* event, value event and marker other than Item in WaitForItem, fails with
\* an error naming the offending event and the state.
C2_IllegalEventFails ==
    /\ DidIn(WaitForStart) /\ ~IsStart(last.ev) => ~last.ok /\ NamesEventAndState
    /\ DidIn(WaitForItem) /\ ~IsEnd(last.ev) /\ last.ev.tag # "Item" =>
            ~last.ok /\ NamesEventAndState

C2_Witness ==
    /\ DidIn(WaitForStart)
    /\ last.ev.tag = "EndStruct"
    /\ ~last.ok
    /\ last.err.ev.tag = "EndStruct"
    /\ last.err.state = "WaitForStart"

\* C3: when the stripper or the builder rejects an event of the items,
\* serialize_into_array, serialize_into_arrays, serialize_into_field and
\* serialize_into_fields return an Err and do not panic.
C3_ErrNotPanic ==
    /\ outcome # "panic"
    /\ entry \in EntryPoints /\ Did /\ ~last.ok => outcome = "err"

C5_OnlyStartSequence ==
    /\ DidIn(WaitForStart) => (last.ok <=> last.ev.tag = "StartSequence")
    /\ DidIn(WaitForStart) /\ last.ev.tag = "StartSequence" =>
            sink.state = WaitForItem /\ NotForwarded
    /\ DidIn(WaitForItem) /\ last.ev.tag = "Item" =>
            last.ok /\ sink.state = Item(0) /\ NotForwarded

\* C6: in Item(d) a start-marker is forwarded exactly once and moves the
\* stripper to Item(d+1), for every d >= 0.
C6_StartInItem ==
    DidInItem /\ IsStart(last.ev) =>
        /\ last.ok
        /\ ForwardedOnce
        /\ sink.state = Item(last.pre.state.depth + 1)

C6_Witness ==
    /\ DidIn(Item(1))
    /\ last.ev.tag = "StartMap"
    /\ sink.state = Item(2)
    /\ ForwardedOnce

\* C7 (as claimed): in Item(0) an end-marker is accepted, forwarded and moves
\* the stripper to WaitForItem.
C7_EndInItem0 ==
    DidIn(Item(0)) /\ IsEnd(last.ev) =>
        last.ok /\ ForwardedOnce /\ sink.state = WaitForItem

\* C7 (amended): the row-completing end-marker is the one in Item(1): it is
\* accepted, forwarded and moves the stripper to WaitForItem; in Item(0) an
\* end-marker is rejected, nothing is forwarded and the state stays Item(0).
C7_EndCompletesRow ==
    /\ DidIn(Item(1)) /\ IsEnd(last.ev) =>
            last.ok /\ ForwardedOnce /\ sink.state = WaitForItem
    /\ DidIn(Item(0)) /\ IsEnd(last.ev) =>
            ~last.ok /\ NamesEventAndState /\ sink = last.pre

C7_Witness ==
    /\ DidIn(Item(1))
    /\ IsEnd(last.ev)
    /\ last.ok
    /\ sink.state = WaitForItem
    /\ ForwardedOnce

\* C8 (as claimed): in Item(d) with d > 0 an end-marker is forwarded and moves
\* the stripper to Item(d-1), from Item(1) to Item(0).
C8_EndDecrements ==
    DidInItem /\ last.pre.state.depth > 0 /\ IsEnd(last.ev) =>
        last.ok /\ ForwardedOnce /\ sink.state = Item(last.pre.state.depth - 1)

\* C8 (amended): in Item(d) with d > 1 an end-marker is forwarded and moves
\* the stripper to Item(d-1); from Item(1) it is forwarded and the stripper
\* moves to WaitForItem, never to Item(0).
C8_EndDecrementsAboveOne ==
    /\ DidInItem /\ last.pre.state.depth > 1 /\ IsEnd(last.ev) =>
            last.ok /\ ForwardedOnce /\ sink.state = Item(last.pre.state.depth - 1)
    /\ DidIn(Item(1)) /\ IsEnd(last.ev) =>
            ForwardedOnce /\ sink.state # Item(0) /\ sink.state.kind = "WaitForItem"

C8_Witness ==
    /\ DidIn(Item(2))
    /\ IsEnd(last.ev)
    /\ sink.state = Item(1)
    /\ ForwardedOnce

\* C9: in WaitForItem an end-marker moves the stripper to WaitForStart and is
\* not forwarded; from there the stripper treats every event exactly as a
\* freshly constructed stripper over the same wrapped sink does.
C9_EndOfStream ==
    DidIn(WaitForItem) /\ IsEnd(last.ev) =>
        /\ last.ok
        /\ sink.state = WaitForStart
        /\ NotForwarded
        /\ \A e \in AllEvents :
                StripAccept(sink, e) = StripAccept(StripOuterSequenceSink_new(sink.wrapped), e)

C9_Witness ==
    /\ DidIn(WaitForItem)
    /\ IsEnd(last.ev)
    /\ sink.state = WaitForStart
    /\ Len(sink.wrapped) > 0
    /\ StripAccept(sink, Ev("StartSequence", "", 0)).sink.state = WaitForItem

\* C10 (as claimed): in Item(d) every event that is neither a start- nor an
\* end-marker is forwarded exactly once, payload unchanged, and the stripper
\* stays in Item(d), for every d.
C10_OtherStays ==
    DidInItem /\ ~IsStart(last.ev) /\ ~IsEnd(last.ev) =>
        last.ok /\ ForwardedOnce /\ sink.state = last.pre.state

\* C10 (amended): such an event is forwarded exactly once, payload unchanged;
\* the markers Item, Some and Variant leave the stripper in Item(d) for every
\* d, a value event leaves it in Item(d) for d > 0 and in Item(0) completes
\* the row, moving the stripper to WaitForItem.
C10_OtherForwarded ==
    DidInItem /\ ~IsStart(last.ev) /\ ~IsEnd(last.ev) =>
        /\ last.ok
        /\ ForwardedOnce
        /\ sink.state =
             IF IsValue(last.ev) /\ last.pre.state.depth = 0
             THEN WaitForItem
             ELSE last.pre.state

C10_Witness ==
    /\ DidIn(Item(0))
    /\ last.ev = Ev("Str", "x", 0)
    /\ sink.state = WaitForItem
    /\ sink.wrapped[Len(sink.wrapped)] = Ev("Str", "x", 0)

----------------------------------------------------------------------------
(* Utf8Builder *)

RECURSIVE Slice(_, _, _)
\* &bytes[from..to], as runs
Slice(bytes, from, to) ==
    IF bytes = <<>> \/ to <= 0 THEN <<>>
    ELSE LET r == Head(bytes)
             lo == IF from > 0 THEN from ELSE 0
             hi == IF to < r.n THEN to ELSE r.n
             rest == Slice(Tail(bytes), from - r.n, to - r.n)
         IN  IF hi > lo THEN <<Run(r.byte, hi - lo)>> \o rest ELSE rest

RECURSIVE Packed(_)
\* the same bytes with neighbouring runs of one byte joined
Packed(bytes) ==
    IF Len(bytes) < 2 THEN bytes
    ELSE LET rest == Packed(Tail(bytes))
         IN  IF Head(bytes).byte = Head(rest).byte
             THEN <<Run(Head(rest).byte, Head(bytes).n + Head(rest).n)>> \o Tail(rest)
             ELSE <<Head(bytes)>> \o rest

LastOffset(b) == b.offsets.offsets[Len(b.offsets.offsets)]

\* C11: on a nullable builder, after N successful calls of serialize_none,
\* serialize_default, serialize_str and serialize_some the validity bitmap
\* has exactly N entries, and entry i is false exactly when row i was
\* written as null; a builder made non-nullable has no bitmap at all.
C11_ValidityPerRow ==
    call.ok =>
        IF call.nullable
        THEN /\ builder.validity.some
             /\ Len(builder.validity.bits) = Len(written)
             /\ \A i \in 1..Len(written) :
                    builder.validity.bits[i] = ~written[i].null
        ELSE builder.validity = NoneBits

C11_Witness ==
    /\ call.nullable
    /\ call.ok
    /\ call.op = "serialize_some"
    /\ Len(written) = 3
    /\ written[1].null
    /\ ~written[2].null
    /\ builder.validity.bits[1] = FALSE
    /\ builder.validity.bits[2] = TRUE

\* C12: the offsets buffer always has one entry more than there are rows,
\* starts with 0 and never decreases.
C12_OffsetsMonotone ==
    LET off == builder.offsets.offsets
    IN  /\ Len(off) = Len(written) + 1
        /\ off[1] = 0
        /\ \A i \in 1..(Len(off) - 1) : off[i] <= off[i + 1]

C12_Witness ==
    /\ Len(written) = 3
    /\ builder.offsets.offsets = <<0, 1, 1, 3>>

\* C13: a successful serialize_default or serialize_none appends one offset
\* equal to the last offset before the call and leaves the value buffer as
\* it was; where the builder has a bitmap it appends one false entry to it.
C13_NullKeepsBytes ==
    (call.op \in {"serialize_default", "serialize_none"} /\ call.ok) =>
        /\ builder.offsets.offsets =
              Append(call.pre.offsets.offsets, LastOffset(call.pre))
        /\ builder.buffer = call.pre.buffer
        /\ call.nullable =>
              builder.validity.bits = Append(call.pre.validity.bits, FALSE)

C13_Witness ==
    /\ call.op = "serialize_none"
    /\ call.ok
    /\ call.nullable
    /\ call.pre.buffer # <<>>
    /\ Len(builder.validity.bits) = Len(call.pre.validity.bits) + 1

\* C14: the builder's buffers give the rows back: the bytes between
\* offsets i and i+1 are those of the i-th string and its validity bit is
\* true, or, for a null, the slice is empty and the bit is false; the last
\* offset is the length of the value buffer.
C14_RoundTrip ==
    LET off == builder.offsets.offsets
    IN  /\ \A i \in 1..Len(written) :
              LET slice == Slice(builder.buffer, off[i], off[i + 1])
              IN  IF written[i].null
                  THEN /\ slice = <<>>
                       /\ call.nullable => builder.validity.bits[i] = FALSE
                  ELSE /\ Packed(slice) = Packed(written[i].str)
                       /\ call.nullable => builder.validity.bits[i] = TRUE
        /\ LastOffset(builder) = ByteLen(builder.buffer)

\* "x" and then a null
C14_Witness ==
    /\ written = <<StrRow(<<Run(120, 1)>>), NullRow>>
    /\ call.nullable
    /\ builder.validity.bits = <<TRUE, FALSE>>
    /\ builder.offsets.offsets = <<0, 1, 1>>
    /\ builder.buffer = <<Run(120, 1)>>

\* C15: serialize_str fails with an overflow error, and writes no wrapped
\* or truncated offset, whenever the bytes written so far plus those of the
\* new string do not fit the offset type.
C15_OffsetOverflowFails ==
    (/\ call.op = "serialize_str"
     /\ ByteLen(call.arg.str) > I32Max - LastOffset(call.pre)) =>
        /\ ~call.ok
        /\ call.err = "overflow"
        /\ builder.offsets = call.pre.offsets

C15_Witness ==
    /\ call.op = "serialize_str"
    /\ ~call.ok
    /\ call.err = "overflow"
    /\ LastOffset(call.pre) = 1073741824
    /\ call.arg.str = <<Run(97, 1073741824)>>

----------------------------------------------------------------------------
(* IntegerDeserializer *)

\* the row of the latest read is in the array and defined
ReadOfDefinedRow == read.idx < Len(view.values) /\ view.valid[read.idx + 1]

\* the integer type a deserialize_<t> method asks for
Requested(method) ==
    CASE method = "deserialize_u8" -> "u8"
      [] method = "deserialize_u16" -> "u16"
      [] method = "deserialize_u32" -> "u32"
      [] method = "deserialize_u64" -> "u64"
      [] method = "deserialize_i8" -> "i8"
      [] method = "deserialize_i16" -> "i16"
      [] method = "deserialize_i32" -> "i32"
      [] method = "deserialize_i64" -> "i64"

\* C16: deserialize_<t> of a defined row hands the stored value, unchanged,
\* to visit_<t> when the value lies in the range of t, and otherwise fails
\* with an overflow error; it never truncates or wraps.
C16_CheckedNarrowing ==
    (read.op \in IntegerMethods /\ ReadOfDefinedRow) =>
        LET stored == view.values[read.idx + 1]
        IN  IF InRange(Requested(read.op), stored)
            THEN /\ read.ok
                 /\ read.value = stored
                 /\ read.visited = Requested(read.op)
            ELSE ~read.ok /\ read.err = "overflow"

\* an i64 of 300 read as u8
C16_Witness ==
    /\ read.op = "deserialize_u8"
    /\ view.type = "i64"
    /\ view.values[1] = 300
    /\ read.idx = 0
    /\ view.valid[1]
    /\ ~read.ok
    /\ read.err = "overflow"

----------------------------------------------------------------------------
(* TimeDeserializer *)

\* the latest read rendered a defined row of a time array
RenderedTime ==
    /\ read.op = "deserialize_string"
    /\ view.kind = "time"
    /\ view.valid[read.idx + 1]

\* the raw value of the row read
RawRead == view.values[read.idx + 1]

\* C17: for every unit and every raw value from zero to below one day,
\* get_string_repr splits the value into whole seconds s and a nanosecond
\* part n with s * 10^9 + n equal to the value in nanoseconds: nothing below
\* the second is lost.
C17_KeepsSubSeconds ==
    (/\ RenderedTime
     /\ RawRead >= 0
     /\ RawRead \div view.seconds_factor < 86400) =>
        /\ read.ok
        /\ read.time.frac % view.nanoseconds_factor = 0
        /\ read.time.secs * view.seconds_factor
              + read.time.frac \div view.nanoseconds_factor = RawRead

\* C18: get_string_repr fails with a conversion error for every negative
\* raw value and every raw value of 86 400 seconds or more, in all four
\* units; such a value is never rendered as a time.
C18_InvalidTimeFails ==
    (/\ RenderedTime
     /\ (RawRead < 0 \/ RawRead \div view.seconds_factor >= 86400)) =>
        /\ ~read.ok
        /\ read.err = "Invalid timestamp"

----------------------------------------------------------------------------
(* DateDeserializer *)

IsDigits(s) == \A i \in 1..Len(s) : \E d \in 0..9 : s[i] = Digit(d)

RECURSIVE ParseNat(_)
\* the number a string of digits stands for
ParseNat(s) ==
    IF s = <<>> THEN 0
    ELSE 10 * ParseNat(SubSeq(s, 1, Len(s) - 1))
           + (CHOOSE d \in 0..9 : s[Len(s)] = Digit(d))

\* the latest read rendered a defined row of a date array whose day is a
\* date of the calendar
RenderedDate ==
    /\ read.op = "deserialize_string"
    /\ view.kind = "date"
    /\ read.idx < Len(view.values)
    /\ view.valid[read.idx + 1]
    /\ DateInRange(DivByDayFactor(view.values[read.idx + 1]))

\* the calendar date of the day of the row read
DateRead == CivilFromDays(DivByDayFactor(view.values[read.idx + 1]))

\* C19: a Date32 or Date64 value whose day lies in a negative year y is
\* rendered as "-YYYYYY-MM-DD": a minus sign, |y| zero-padded to six digits
\* and month and day in two digits; a value of a year >= 0 is rendered in
\* the default format of the date, without a minus sign.
C19_NegativeYearFormat ==
    RenderedDate =>
        LET s == read.value
        IN  /\ read.ok
            /\ IF DateRead.year < 0
               THEN /\ Len(s) = 13
                    /\ s[1] = "-" /\ s[8] = "-" /\ s[11] = "-"
                    /\ IsDigits(SubSeq(s, 2, 7))
                    /\ IsDigits(SubSeq(s, 9, 10))
                    /\ IsDigits(SubSeq(s, 12, 13))
                    /\ ParseNat(SubSeq(s, 2, 7)) = -DateRead.year
                    /\ ParseNat(SubSeq(s, 9, 10)) = DateRead.month
                    /\ ParseNat(SubSeq(s, 12, 13)) = DateRead.day
               ELSE /\ s = NaiveDate_to_string(DateRead)
                    /\ s[1] # "-"

\* 1 January of year -1, as Date32
C19_Witness ==
    /\ read.op = "deserialize_string"
    /\ view.kind = "date"
    /\ view.type = "i32"
    /\ read.idx = 0
    /\ view.valid[1]
    /\ view.values[1] = DateValue(-719893, 0)
    /\ read.ok
    /\ read.value = <<"-", "0", "0", "0", "0", "0", "1", "-", "0", "1", "-", "0", "1">>

----------------------------------------------------------------------------
(* Dictionary deserializers *)

\* the key type of an integer view or data type, "" for any other
KeyOf(kind) ==
    CASE kind \in {"Int8", "I8"} -> "I8"
      [] kind \in {"Int16", "I16"} -> "I16"
      [] kind \in {"Int32", "I32"} -> "I32"
      [] kind \in {"Int64", "I64"} -> "I64"
      [] kind \in {"UInt8", "U8"} -> "U8"
      [] kind \in {"UInt16", "U16"} -> "U16"
      [] kind \in {"UInt32", "U32"} -> "U32"
      [] kind \in {"UInt64", "U64"} -> "U64"
      [] OTHER -> ""

\* the offset type of a string view or data type, "" for any other
OffsetOf(kind) ==
    CASE kind = "Utf8" -> "I32"
      [] kind = "LargeUtf8" -> "I64"
      [] OTHER -> ""

\* one of the 16 pairings
Pairing(key, value) == KeyOf(key) # "" /\ OffsetOf(value) # ""

\* C20: building a dictionary deserializer succeeds exactly for the 16
\* pairings of an integer key type with Utf8 or LargeUtf8, and then gives
\* the variant of that key type and that offset width; every other pairing
\* fails, and so does a Dictionary field with fewer than two children.
\* Built from a field, the array has to be the dictionary array the field
\* describes.
C20_DictionaryPairings ==
    (view.kind = "dictionary" /\ read.op = "new") =>
        IF view.via = "ArrayDeserializer::new"
        THEN IF Pairing(view.keys, view.values)
             THEN /\ read.ok
                  /\ read.variant =
                        DictionaryVariant(KeyOf(view.keys), OffsetOf(view.values))
             ELSE ~read.ok
        ELSE IF Len(view.children) < 2 THEN ~read.ok
        ELSE IF /\ Pairing(view.children[1], view.children[2])
                /\ view.array = DictionaryArray(KeyOf(view.children[1]),
                                                OffsetOf(view.children[2]))
             THEN /\ read.ok
                  /\ read.variant = DictionaryVariant(KeyOf(view.children[1]),
                                                      OffsetOf(view.children[2]))
             ELSE ~read.ok

\* u8 keys into LargeUtf8 values give DictionaryU8I64
C20_Witness ==
    /\ view.kind = "dictionary"
    /\ read.op = "new"
    /\ view.via = "ArrayDeserializer::new"
    /\ view.keys = "UInt8"
    /\ view.values = "LargeUtf8"
    /\ read.ok
    /\ read.variant = DictionaryVariant("U8", "I64")

----------------------------------------------------------------------------
(* build_struct_fields *)

\* C21: build_struct_fields fails when there are not as many arrays as
\* fields and when an array has another length than the others; when it
\* succeeds it returns, in order, one pair per field of the field's name
\* and the deserializer of the array at the same position, and the common
\* number of rows, 0 when there are no arrays.
C21_StructFields ==
    (view.kind = "struct" /\ read.op = "build_struct_fields") =>
        /\ Len(view.fields) # Len(view.arrays) => ~read.ok
        /\ (\E i, j \in 1..Len(view.arrays) :
               view.arrays[i].len # view.arrays[j].len) => ~read.ok
        /\ read.ok =>
              /\ Len(read.deserializers) = Len(view.fields)
              /\ \A i \in 1..Len(view.fields) :
                    read.deserializers[i] = <<view.fields[i].name, view.arrays[i].id>>
              /\ \A i \in 1..Len(view.arrays) : view.arrays[i].len = read.len
              /\ view.arrays = <<>> => read.len = 0

\* two fields over two arrays of one row
C21_Witness ==
    /\ view.kind = "struct"
    /\ read.op = "build_struct_fields"
    /\ read.ok
    /\ Len(view.fields) = 2
    /\ view.fields[1].name # view.fields[2].name
    /\ read.len = 1
    /\ read.deserializers = <<<<view.fields[1].name, 1>>, <<view.fields[2].name, 2>>>>

----------------------------------------------------------------------------
(* GenericArrayBuilder, GenericArraysBuilder *)

\* C22: a GenericArrayBuilder of a Dictionary field gives a string the same
\* key in every chunk: a string that was assigned key k before a
\* build_array is assigned k again when it is pushed after it.
C22_KeysKeptAcrossBuilds ==
    \A p, q \in written.keys : p[1] = q[1] => p[2] = q[2]

\* C23: whatever the order of push, extend and build, a build returns the
\* rows given since the build before it, in order, from a builder on which
\* finish was called exactly once; after it the builder holds no rows, and
\* between builds it holds the rows given so far.
C23_BuildReturnsRowsSince ==
    /\ builder.builder.events = Concat(written.rows)
    /\ builder.builder.finished = 0
    /\ call.op = "build" =>
          /\ call.ok
          /\ call.out.events = Concat(call.rows)
          /\ call.out.finished = 1
          /\ builder.builder.events = <<>>

\* the second build returns the two rows extended after the first, which
\* returned a pushed row
C23_Witness ==
    /\ call.op = "build"
    /\ written.builds = 2
    /\ Len(call.rows) = 2
    /\ call.out.events = Concat(call.rows)
    /\ call.out.finished = 1

----------------------------------------------------------------------------
(* Random access to a DateDeserializer *)

\* the latest read was a random-access read of row read.idx
RandomAccessRead == view.kind = "date" /\ read.op # "none" /\ read.access = "random"

\* the outcome of the latest read
Outcome(r) ==
    [ok |-> r.ok, err |-> r.err, panic |-> r.panic, value |-> r.value,
     visited |-> r.visited, num |-> r.num]

\* the outcome of a random-access call on a deserializer
OutcomeOf(self, method, idx) ==
    IF method = "deserialize_string"
    THEN LET r == DateDeserializeString(self, idx)
         IN  [ok |-> r.ok, err |-> r.err, panic |-> r.panic, value |-> r.value,
              visited |-> "string", num |-> DateValue(0, 0)]
    ELSE LET r == DateDeserialize(self, method, idx)
         IN  [ok |-> r.ok, err |-> r.err, panic |-> FALSE, value |-> <<>>,
              visited |-> r.visited, num |-> r.num]

C25_AnyIsNaturalKind ==
    (RandomAccessRead /\ read.op = "deserialize_any" /\ read.idx < Len(view.values)) =>
        IF view.valid[read.idx + 1]
        THEN LET natural == OutcomeOf(view, IF view.type = "i32" THEN "deserialize_i32"
                                            ELSE "deserialize_i64", read.idx)
             IN  /\ read.ok = natural.ok
                 /\ read.ok => read.num = natural.num /\ read.visited # "none"
        ELSE read.ok /\ read.visited = "none"

----------------------------------------------------------------------------
(* serialize_into_sink *)

\* the calls on the sink that are accept calls, and those that are finish
AcceptCalls == SelectSeq(written, LAMBDA c : c.op = "accept")

FinishCalls == SelectSeq(written, LAMBDA c : c.op = "finish")

\* C26: serialize_into_sink hands the events of the value to the sink in
\* order, calls finish once after all of them were accepted and not at all
\* after an accept failed, and makes no call after finish or after a
\* failed accept.
C26_FinishOnceAfterAllEvents ==
    /\ Len(FinishCalls) <= 1
    /\ \A i \in 1..Len(written) :
          /\ written[i].op = "accept" => i <= Len(stream) /\ written[i].ev = stream[i]
          /\ written[i].op = "finish" =>
                /\ i = Len(written)
                /\ i = Len(stream) + 1
                /\ \A j \in 1..(i - 1) : written[j].op = "accept" /\ written[j].ok
          /\ ~written[i].ok => i = Len(written)
    /\ (\E i \in 1..Len(written) : ~written[i].ok) => outcome \in {"err", "panic"}
    /\ ( /\ outcome \in {"ok", "err", "panic"}
         /\ Len(AcceptCalls) = Len(stream)
         /\ \A i \in 1..Len(AcceptCalls) : AcceptCalls[i].ok ) => Len(FinishCalls) = 1

\* finish was called after the six events of a sequence of one record
C26_Witness ==
    /\ Len(stream) = 6
    /\ Len(written) = 7
    /\ written[7].op = "finish"
    /\ written[7].ok
    /\ outcome = "ok"

----------------------------------------------------------------------------
(* The nesting the stripper counts *)

\* the events of a sequence that satisfy a test
CountOf(events, Test(_)) == Len(SelectSeq(events, Test))

\* start-markers less end-markers among the first n forwarded events
Balance(n) ==
    CountOf(SubSeq(sink.wrapped, 1, n), IsStart) - CountOf(SubSeq(sink.wrapped, 1, n), IsEnd)

\* C27: with a wrapped sink that accepts every event, the start-markers
\* forwarded less the end-markers forwarded are d in state Item(d) and 0 in
\* WaitForStart and WaitForItem, and no forwarded end-marker lacks an
\* unmatched start-marker before it.
C27_DepthIsBalance ==
    rejects = {} =>
        /\ Balance(Len(sink.wrapped)) =
              (IF sink.state.kind = "Item" THEN sink.state.depth ELSE 0)
        /\ \A n \in 0..Len(sink.wrapped) : Balance(n) >= 0

\* inside a row, one of two forwarded start-markers has been closed
C27_Witness ==
    /\ rejects = {}
    /\ sink.state = Item(1)
    /\ Len(sink.wrapped) = 3
    /\ IsStart(sink.wrapped[1])
    /\ IsStart(sink.wrapped[2])
    /\ IsEnd(sink.wrapped[3])

----------------------------------------------------------------------------
(* A failed call on the stripper *)

\* the latest call failed because its event is illegal in the state
FailedAsIllegal == Did /\ ~last.ok /\ last.err = InvalidEvent(last.ev, last.pre.state)

\* the latest call failed because the wrapped sink rejected the event
FailedAsRejected == Did /\ ~last.ok /\ last.err = WrongEvent(last.ev)

\* C28: a call on the stripper that returns an error, the event being
\* illegal in the state or rejected by the wrapped sink, leaves the state
\* of the stripper as it was, and an illegal event is not forwarded.
C28_ErrorKeepsState ==
    (Did /\ ~last.ok) =>
        /\ FailedAsIllegal \/ FailedAsRejected
        /\ sink.state = last.pre.state
        /\ FailedAsIllegal => NotForwarded

\* inside a nested sequence of a row the wrapped sink rejected a string
C28_Witness ==
    /\ FailedAsRejected
    /\ last.ev.tag = "Str"
    /\ last.pre.state = Item(1)
    /\ sink.state = Item(1)

----------------------------------------------------------------------------
(* The day of a Date64 value *)

\* the stored value of the row the latest deserialize_string read
StoredDate == view.values[read.idx + 1]

\* C29: get_string_repr renders the calendar date of the day
\* floor(v / 86 400 000) from 1970-01-01 for a Date64 value v, negative
\* values that are not whole days included, and of day v for a Date32
\* value; a value hi * 86 400 000 + lo with 0 <= lo < 86 400 000 has the
\* floor hi.
C29_FloorDay ==
    (RenderedDate /\ DateInRange(StoredDate.hi)) =>
        /\ read.ok
        /\ read.date = CivilFromDays(StoredDate.hi)

----------------------------------------------------------------------------
(* Utf8Builder after a failed serialize_str *)

\* the latest call was a serialize_str that failed on the offset
StrOverflowed == call.op = "serialize_str" /\ ~call.ok /\ call.err = "overflow"

\* C30: a serialize_str that fails because the offset does not fit leaves
\* the offsets and the bytes as they were and has added one entry to the
\* validity bitmap of a nullable builder, which then has as many entries as
\* there are offsets, one more than the rows the offsets describe.
C30_FailedStrGrowsValidityOnly ==
    StrOverflowed =>
        /\ builder.offsets = call.pre.offsets
        /\ builder.buffer = call.pre.buffer
        /\ IF call.nullable
           THEN /\ builder.validity.bits = Append(call.pre.validity.bits, TRUE)
                /\ Len(call.pre.validity.bits) = Len(call.pre.offsets.offsets) - 1
                /\ Len(builder.validity.bits) = Len(builder.offsets.offsets)
           ELSE builder.validity = call.pre.validity

\* the second string of a nullable builder did not fit
C30_Witness ==
    /\ StrOverflowed
    /\ call.nullable
    /\ Len(builder.offsets.offsets) = 2
    /\ builder.validity.bits = <<TRUE, TRUE>>

====
